---- MODULE Spec2Model ----
(***************************************************************************)
(* Model of the TheSimple/Ecofactor client (thesimple.py) and of the       *)
(* climate adapters' refresh wrapper (climate.py), in the two variants of  *)
(* the repository: custom_components/simple and custom_components/nvenergy.*)
(*                                                                         *)
(* Strings that the code tests for emptiness (the access token, the        *)
(* refresh token) are sequences: <<>> is "", <<g>> is the token of grant   *)
(* g.  Python's None for an object reference is <<>> and an object x is    *)
(* <<x>>.  Exceptions are named by their class; "none" is a normal return. *)
(***************************************************************************)
EXTENDS Integers, Sequences, FiniteSets, TLC

\* ------------------------------------------------------------------ bounds
\* number of distinct grants (access token / refresh token / user id
\* triples) the server can hand out
NumGrants == 2
\* number of worker threads that run calls of the library at one time
NumThreads == 2

\* ------------------------------------------------------- program constants
HTTP_SUCCESS_START == 200
HTTP_SUCCESS_END == 299
HTTP_FORBIDDEN_START == 401
HTTP_FORBIDDEN_END == 401

\* -------------------------------------------------------------- input sets
Variants == {"simple", "nvenergy"}
Statuses == {200, 401, 403, 500}
\* the statuses the calls built on http_request are run against
CallStatuses == {200, 401, 500}
Grants == 1 .. NumGrants
Usernames == {"alice"}
Passwords == {"secret"}
Methods == {"GET", "PATCH", "POST"}

None == <<>>
Some(x) == <<x>>

\* body of the token response: the grant it carries and the first of the
\* three consumed keys that is absent ("none": the body is complete)
TokenKeys == <<"access_token", "user_id", "refresh_token">>
TokenBodies ==
  [grant : Grants, missing : {"none"}]
    \cup [grant : {1}, missing : {"access_token", "user_id", "refresh_token"}]
\* the token bodies the update coroutine is run against
UpdateTokenBodies ==
  [grant : Grants, missing : {"none"}]
    \cup [grant : {1}, missing : {"access_token", "user_id"}]

\* body of the public_key response: which PEM text the field carries
PubKeyBodies == {"rsa", "garbage", "missing"}

\* body of the nonce response: the WWW-Authenticate string, by its parts
\* (form: it has the shape DigestE realm="..", nonce="..", opaque="..";
\* trailing: more text follows the opaque value), or the key absent
WordStrings == {"Consumer", "Other", "n1", "o1"}
Challenges ==
  [form : {TRUE}, realm : {"Consumer"}, nonce : {"n1"}, opaque : {"o1"},
   trailing : BOOLEAN]
    \cup {[form |-> TRUE, realm |-> "Other", nonce |-> "n1", opaque |-> "o1",
           trailing |-> FALSE],
          [form |-> FALSE, realm |-> "Consumer", nonce |-> "n1", opaque |-> "o1",
           trailing |-> FALSE],
          [form |-> TRUE, realm |-> "Consumer", nonce |-> "n 1", opaque |-> "o1",
           trailing |-> FALSE]}
NonceBodies == {[present |-> TRUE, www |-> w] : w \in Challenges}
                 \cup {[present |-> FALSE, www |-> CHOOSE w \in Challenges : TRUE]}

VARIABLES
  variant,   \* which of the two packages runs
  client,    \* the TheSimpleClient object
  th,        \* the TheSimpleThermostat object the adapter holds: None or Some(t)
  upd,       \* the adapter's async_update coroutine: position, locals, history
  sent,      \* requests put on the network by the last operation (or wrapper run)
  last,      \* what the last call was and how it ended
  threads    \* the executor's worker threads inside the client: position, locals

vars == <<variant, client, th, upd, sent, last, threads>>

\* ----------------------------------------------------------------- client
\* a session without the header
NewSession_bare == [headers |-> {}]
\* requests.Session() after headers.update: the headers it adds to every
\* request sent through it, as pairs of name and value
NewSession == [headers |-> {<<"X-Requested-With", "XMLHttpRequest">>}]

InitClient ==
  [token |-> <<>>,
   authinfo |-> [nonce |-> "", response |-> <<>>, opaque |-> "", encryptedpass |-> <<>>],
   username |-> "",
   http_sess |-> None,
   userid |-> <<>>,
   location_id |-> "None",
   refreshToken |-> <<>>,
   publicKey |-> "None",
   realm |-> "",
   nonce |-> "",
   opaque |-> ""]

\* the httpSess property: creates the session on first use
httpSess(c) ==
  IF c.http_sess = None THEN [c EXCEPT !.http_sess = Some(NewSession)] ELSE c

clearToken(c) ==
  [c EXCEPT !.token = <<>>, !.refreshToken = <<>>, !.http_sess = None]

\* SHA-1 as an uninterpreted, injective function of its argument
H(x) == <<"sha1", x>>

buildResponse(username, password, realm, nonce) ==
  LET pwhash == H(<<password>>)
      step2 == H(<<username, realm, pwhash>>)
  IN  H(<<step2, nonce>>)

\* a request as the server sees it, sent through the session of client c
\* (created now if c holds none).  The last three fields are observations
\* of the client at the moment of sending: the stored tokens, and whether
\* the session was created for this request
Request(c, method, url, authz, body, authenticated) ==
  [method |-> method, url |-> url, authenticated |-> authenticated,
   authorization |-> authz,
   headers |-> httpSess(c).http_sess[1].headers,
   body |-> body,
   tokenAtSend |-> c.token,
   refreshAtSend |-> c.refreshToken,
   freshSession |-> c.http_sess = None]

Bearer(token) == Some([scheme |-> "Bearer", token |-> token])

\* result of a call: the client afterwards, the exception raised ("none"
\* when it returned), the requests it sent and the response it returned
Result(c, exc, reqs, r) == [c |-> c, exc |-> exc, sent |-> reqs, r |-> r]

NoResp == [status |-> 0, body |-> None]

\* http_request without the check for a held token
http_request_unguarded(c, method, url, body, authenticated, resp) ==
  IF method \notin {"GET", "PATCH", "PUT", "DELETE"}
    THEN Result(c, IF variant = "simple" THEN "APIError" ELSE "UnboundLocalError",
                <<>>, NoResp)
  ELSE
    LET c1 == httpSess(c)
        req == Request(c, method, url,
                       IF authenticated THEN Bearer(c.token) ELSE None,
                       body, authenticated)
    IN  IF HTTP_SUCCESS_START <= resp.status /\ resp.status <= HTTP_SUCCESS_END
          THEN Result(c1, "none", <<req>>, resp)
        ELSE IF HTTP_FORBIDDEN_START <= resp.status /\ resp.status <= HTTP_FORBIDDEN_END
          THEN Result(clearToken(c1), "APIError", <<req>>, resp)
        ELSE Result(c1, "APIError", <<req>>, resp)

\* http_request that opens the session before it checks for a held token
http_request_eager(c, method, url, body, authenticated, resp) ==
  IF authenticated /\ Len(c.token) = 0
    THEN Result(httpSess(c), "AuthError", <<>>, NoResp)
  ELSE IF method \notin {"GET", "PATCH", "PUT", "DELETE"}
    THEN Result(c, IF variant = "simple" THEN "APIError" ELSE "UnboundLocalError",
                <<>>, NoResp)
  ELSE
    LET c1 == httpSess(c)
        req == Request(c, method, url,
                       IF authenticated THEN Bearer(c.token) ELSE None,
                       body, authenticated)
    IN  IF HTTP_SUCCESS_START <= resp.status /\ resp.status <= HTTP_SUCCESS_END
          THEN Result(c1, "none", <<req>>, resp)
        ELSE IF HTTP_FORBIDDEN_START <= resp.status /\ resp.status <= HTTP_FORBIDDEN_END
          THEN Result(clearToken(c1), "APIError", <<req>>, resp)
        ELSE Result(c1, "APIError", <<req>>, resp)

\* http_request that treats every 4xx status as it treats 401
http_request_4xx(c, method, url, body, authenticated, resp) ==
  IF authenticated /\ Len(c.token) = 0
    THEN Result(c, "AuthError", <<>>, NoResp)
  ELSE IF method \notin {"GET", "PATCH", "PUT", "DELETE"}
    THEN Result(c, IF variant = "simple" THEN "APIError" ELSE "UnboundLocalError",
                <<>>, NoResp)
  ELSE
    LET c1 == httpSess(c)
        req == Request(c, method, url,
                       IF authenticated THEN Bearer(c.token) ELSE None,
                       body, authenticated)
    IN  IF HTTP_SUCCESS_START <= resp.status /\ resp.status <= HTTP_SUCCESS_END
          THEN Result(c1, "none", <<req>>, resp)
        ELSE IF 400 <= resp.status /\ resp.status <= 499
          THEN Result(clearToken(c1), "APIError", <<req>>, resp)
        ELSE Result(c1, "APIError", <<req>>, resp)

\* http_request that leaves the token in place when the answer is 401
http_request_keeptoken(c, method, url, body, authenticated, resp) ==
  IF authenticated /\ Len(c.token) = 0
    THEN Result(c, "AuthError", <<>>, NoResp)
  ELSE IF method \notin {"GET", "PATCH", "PUT", "DELETE"}
    THEN Result(c, IF variant = "simple" THEN "APIError" ELSE "UnboundLocalError",
                <<>>, NoResp)
  ELSE
    LET c1 == httpSess(c)
        req == Request(c, method, url,
                       IF authenticated THEN Bearer(c.token) ELSE None,
                       body, authenticated)
    IN  IF HTTP_SUCCESS_START <= resp.status /\ resp.status <= HTTP_SUCCESS_END
          THEN Result(c1, "none", <<req>>, resp)
        ELSE Result(c1, "APIError", <<req>>, resp)

http_request(c, method, url, body, authenticated, resp) ==
  IF authenticated /\ Len(c.token) = 0
    THEN Result(c, "AuthError", <<>>, NoResp)
  ELSE IF method \notin {"GET", "PATCH", "PUT", "DELETE"}
    THEN Result(c, IF variant = "simple" THEN "APIError" ELSE "UnboundLocalError",
                <<>>, NoResp)
  ELSE
    LET c1 == httpSess(c)
        req == Request(c, method, url,
                       IF authenticated THEN Bearer(c.token) ELSE None,
                       body, authenticated)
    IN  IF HTTP_SUCCESS_START <= resp.status /\ resp.status <= HTTP_SUCCESS_END
          THEN Result(c1, "none", <<req>>, resp)
        ELSE IF HTTP_FORBIDDEN_START <= resp.status /\ resp.status <= HTTP_FORBIDDEN_END
          THEN Result(clearToken(c1), "APIError", <<req>>, resp)
        ELSE Result(c1, "APIError", <<req>>, resp)

\* ------------------------------------------------------------ token request
\* a header that names the realm the challenge carried
DigestE_parsed(c) ==
  Some([scheme |-> "DigestE", username |-> c.username, realm |-> c.realm,
        nonce |-> c.authinfo.nonce, response |-> c.authinfo.response,
        opaque |-> c.authinfo.opaque])

DigestE(c) ==
  Some([scheme |-> "DigestE", username |-> c.username, realm |-> "Consumer",
        nonce |-> c.authinfo.nonce, response |-> c.authinfo.response,
        opaque |-> c.authinfo.opaque])

\* the three assignments of the success branch, in order, up to the first
\* key the body lacks
StoreGrant(c, body) ==
  IF body.missing = "access_token" THEN c
  ELSE IF body.missing = "user_id" THEN [c EXCEPT !.token = <<body.grant>>]
  ELSE IF body.missing = "refresh_token"
    THEN [c EXCEPT !.token = <<body.grant>>, !.userid = <<body.grant>>]
  ELSE [c EXCEPT !.token = <<body.grant>>, !.userid = <<body.grant>>,
                 !.refreshToken = <<body.grant>>]

\* getToken that keeps the old token state while it asks for a new one
getToken_keep(c, resp) ==
  LET c1 == httpSess(c)
      req == Request(c, "POST", <<"authenticate">>, DigestE(c),
                     [username |-> c.username, password |-> c.authinfo.encryptedpass],
                     FALSE)
  IN  IF HTTP_SUCCESS_START <= resp.status /\ resp.status <= HTTP_SUCCESS_END
        THEN Result(StoreGrant(c1, resp.body[1]),
                    IF resp.body[1].missing = "none" THEN "none" ELSE "KeyError",
                    <<req>>, resp)
      ELSE IF HTTP_FORBIDDEN_START <= resp.status /\ resp.status <= HTTP_FORBIDDEN_END
        THEN Result(c1, "AuthError", <<req>>, resp)
      ELSE Result(c1, "APIError", <<req>>, resp)

\* getToken that takes every status but 401 for a success
getToken_lax(c, resp) ==
  LET c0 == clearToken(c)
      c1 == httpSess(c0)
      req == Request(c0, "POST", <<"authenticate">>, DigestE(c0),
                     [username |-> c0.username, password |-> c0.authinfo.encryptedpass],
                     FALSE)
  IN  IF HTTP_FORBIDDEN_START <= resp.status /\ resp.status <= HTTP_FORBIDDEN_END
        THEN Result(c1, "AuthError", <<req>>, resp)
      ELSE IF HTTP_SUCCESS_START <= resp.status /\ resp.status <= HTTP_SUCCESS_END
        THEN Result(StoreGrant(c1, resp.body[1]),
                    IF resp.body[1].missing = "none" THEN "none" ELSE "KeyError",
                    <<req>>, resp)
      ELSE Result(c1, "none", <<req>>, resp)

getToken(c, resp) ==
  LET c0 == clearToken(c)
      c1 == httpSess(c0)
      req == Request(c0, "POST", <<"authenticate">>, DigestE(c0),
                     [username |-> c1.username, password |-> c1.authinfo.encryptedpass],
                     FALSE)
  IN  IF HTTP_SUCCESS_START <= resp.status /\ resp.status <= HTTP_SUCCESS_END
        THEN Result(StoreGrant(c1, resp.body[1]),
                    IF resp.body[1].missing = "none" THEN "none" ELSE "KeyError",
                    <<req>>, resp)
      ELSE IF HTTP_FORBIDDEN_START <= resp.status /\ resp.status <= HTTP_FORBIDDEN_END
        THEN Result(c1, "AuthError", <<req>>, resp)
      ELSE Result(c1, "APIError", <<req>>, resp)

\* ---------------------------------------------------------------- handshake
\* load_pem_public_key: a key object for a PEM text, ValueError otherwise
getPublicKey(c, resp) ==
  LET h == http_request(c, "GET", <<"public_key">>, None, FALSE, resp)
  IN  IF h.exc # "none" THEN h
      ELSE IF resp.body[1] = "missing" THEN Result(h.c, "KeyError", h.sent, resp)
      ELSE IF resp.body[1] = "garbage" THEN Result(h.c, "ValueError", h.sent, resp)
      ELSE Result([h.c EXCEPT !.publicKey = resp.body[1]], "none", h.sent, resp)

\* re.match of 'DigestE realm="(\w+)", nonce="(\w+)", opaque="(\w+)"': the
\* pattern is anchored at the start of the string only
MatchChallenge(www) ==
  /\ www.form
  /\ www.realm \in WordStrings
  /\ www.nonce \in WordStrings
  /\ www.opaque \in WordStrings

getNonce(c, resp) ==
  LET h == http_request(c, "GET", <<"authenticate", "nonce">>, None, FALSE, resp)
  IN  IF h.exc # "none" THEN h
      ELSE IF ~resp.body[1].present THEN Result(h.c, "KeyError", h.sent, resp)
      ELSE IF MatchChallenge(resp.body[1].www)
        THEN Result([h.c EXCEPT !.realm = resp.body[1].www.realm,
                                !.nonce = resp.body[1].www.nonce,
                                !.opaque = resp.body[1].www.opaque],
                    "none", h.sent, resp)
      ELSE Result(h.c, "TheSimpleError", h.sent, resp)

\* RSA PKCS#1 v1.5 encryption of the password under the loaded key; the
\* simple variant checks the key type first, the nvenergy variant calls
\* encrypt on whatever key object was loaded
encryptPasswordExc(c) ==
  IF c.publicKey = "rsa" THEN "none"
  ELSE IF variant = "simple" THEN "TheSimpleError"
  ELSE "AttributeError"

encryptPassword(c, password) == <<"rsa_pkcs1v15", c.publicKey, password>>

authwithdetails(c, user, encpass, nonce, resp, opaque, tokResp) ==
  getToken([c EXCEPT !.authinfo = [nonce |-> nonce, response |-> resp,
                                   opaque |-> opaque, encryptedpass |-> encpass],
                     !.username = user],
           tokResp)

\* a result together with the outcomes of the calls made in turn to reach it
Traced(c, exc, reqs, r, steps) ==
  [c |-> c, exc |-> exc, sent |-> reqs, r |-> r, steps |-> steps]

\* auth, call by call.  Each step takes the result of the call before it:
\* k of getPublicKey, n of getNonce, ch of the two together with the
\* encryption of the password, t of authwithdetails
encryptAfterNonce(k, n) ==
  IF n.exc # "none"
    THEN Traced(n.c, n.exc, k.sent \o n.sent, n.r, <<"none", n.exc>>)
  ELSE Traced(n.c, encryptPasswordExc(n.c), k.sent \o n.sent, n.r,
              <<"none", "none", encryptPasswordExc(n.c)>>)

nonceAfterKey(k, nonceResp) ==
  IF k.exc # "none" THEN Traced(k.c, k.exc, k.sent, k.r, <<k.exc>>)
  ELSE encryptAfterNonce(k, getNonce(k.c, nonceResp))

\* the first two calls of auth and the encryption of the password
authChallenge(c, pkResp, nonceResp) ==
  nonceAfterKey(getPublicKey(c, pkResp), nonceResp)

authResult(ch, t) ==
  Traced(t.c, t.exc, ch.sent \o t.sent, t.r, <<"none", "none", "none", t.exc>>)

tokenAfterChallenge(ch, username, password, tokResp) ==
  IF ch.exc # "none" THEN ch
  ELSE authResult(ch, authwithdetails(ch.c, username, encryptPassword(ch.c, password),
                                      ch.c.nonce,
                                      buildResponse(username, password, ch.c.realm,
                                                    ch.c.nonce),
                                      ch.c.opaque, tokResp))

\* auth that goes on to the token request whatever the challenge step did
auth_persist(c, username, password, pkResp, nonceResp, tokResp) ==
  authResult(authChallenge(c, pkResp, nonceResp),
             authwithdetails(authChallenge(c, pkResp, nonceResp).c, username,
                             <<>>, "", <<>>, "", tokResp))

auth(c, username, password, pkResp, nonceResp, tokResp) ==
  tokenAfterChallenge(authChallenge(c, pkResp, nonceResp), username, password, tokResp)

\* --------------------------------------------------------------- thermostat
MAX_TEMP_DEFAULT == 89
MIN_TEMP_DEFAULT == 50

ThermostatIds == {"t1"}
LocationIds == {"locA", "locB"}

\* bodies of the metadata response
MetaData ==
  {[name |-> "Hall", schedule_mode |-> "auto", min_temperature |-> 45,
    max_temperature |-> 95, hvac_control |-> {"COOL", "HEAT"}]}
MetaKeys == <<"name", "schedule_mode", "model", "hvac_control">>
MetaBodies == [data : MetaData, missing : {"none", "name", "model", "hvac_control"}]

\* bodies of the state response: a complete snapshot and the first consumed
\* key that is absent ("none": complete).  temperature is in hundredths of
\* a degree, away_end_ts tells whether away_details carries end_ts
StateData ==
  {[connected |-> TRUE, setpoint_reason |-> "schedule", temperature |-> 7234,
    hold_mode |-> "off", fan_mode |-> "auto", fan_state |-> "off",
    hvac_mode |-> "cool", hvac_state |-> "cool", cool_setpoint |-> 76,
    heat_setpoint |-> 68, away_end_ts |-> FALSE],
   [connected |-> FALSE, setpoint_reason |-> "hold", temperature |-> 6858,
    hold_mode |-> "on", fan_mode |-> "on", fan_state |-> "on",
    hvac_mode |-> "off", hvac_state |-> "off", cool_setpoint |-> 78,
    heat_setpoint |-> 66, away_end_ts |-> TRUE]}
StateKeys == <<"connected", "setpoint_reason", "temperature", "hold_mode", "fan_mode",
               "fan_state", "hvac_mode", "hvac_state", "cool_setpoint", "heat_setpoint",
               "away_details">>
StateMissing == {"none", "connected", "hvac_mode", "away_details"}
StateBodies == [data : StateData, missing : StateMissing]
\* the state bodies the update coroutine is run against
UpdateStateBodies == [data : StateData, missing : {"none", "hvac_mode"}]

\* position of a key in a sequence of keys; past the end for "none"
RECURSIVE IndexOf(_, _, _)
IndexOf(keys, k, i) ==
  IF i > Len(keys) THEN i
  ELSE IF keys[i] = k THEN i
  ELSE IndexOf(keys, k, i + 1)

\* round(float(x), 1) of a value given in hundredths, as tenths; the bodies
\* above carry no value that lies half-way between two tenths
Round1(h) == IF h % 10 < 5 THEN h \div 10 ELSE h \div 10 + 1

InitThermostat(c, thermostat_id) ==
  [thermostat_id |-> thermostat_id,
   fan_mode |-> None, fan_state |-> None, hvac_mode |-> None, hvac_state |-> None,
   hold_mode |-> None, cool_setpoint |-> None, heat_setpoint |-> None,
   setpoint_reason |-> None, current_temp |-> None, last_update |-> None,
   connected |-> None, name |-> None,
   max_temp |-> MAX_TEMP_DEFAULT, min_temp |-> MIN_TEMP_DEFAULT,
   schedule_mode |-> None, supported_modes |-> {},
   away_details |-> None, preset_mode |-> None,
   location_id |-> c.location_id,
   away_cool_setpoint |-> MAX_TEMP_DEFAULT, away_heat_setpoint |-> MIN_TEMP_DEFAULT]

\* result of a thermostat call: client and thermostat afterwards
TResult(c, t, exc, reqs) == [c |-> c, t |-> t, exc |-> exc, sent |-> reqs]

get_metadata(t, c, resp) ==
  LET h == http_request(c, "GET", <<"thermostat", t.thermostat_id>>, None, TRUE, resp)
  IN  IF h.exc # "none" THEN TResult(h.c, t, h.exc, h.sent)
      ELSE
        LET d == resp.body[1].data
            m == IndexOf(MetaKeys, resp.body[1].missing, 1)
            t1 == IF m > 1 THEN [t EXCEPT !.name = Some(d.name)] ELSE t
            t2 == IF m > 2 THEN [t1 EXCEPT !.schedule_mode = Some(d.schedule_mode)] ELSE t1
            t3 == IF m > 3 THEN [t2 EXCEPT !.min_temp = d.min_temperature,
                                           !.max_temp = d.max_temperature] ELSE t2
            t4 == IF m > 4 THEN [t3 EXCEPT !.supported_modes = d.hvac_control] ELSE t3
        IN  TResult(h.c, t4, IF m > Len(MetaKeys) THEN "none" ELSE "KeyError", h.sent)

\* the assignments of refresh for the keys at positions lo..hi of StateKeys
RECURSIVE Assign(_, _, _, _)
Assign(t, d, lo, hi) ==
  IF lo > hi THEN t
  ELSE
    LET k == StateKeys[lo]
        t1 == CASE k = "connected" -> [t EXCEPT !.connected = Some(d.connected)]
                [] k = "setpoint_reason" -> [t EXCEPT !.setpoint_reason = Some(d.setpoint_reason)]
                [] k = "temperature" -> [t EXCEPT !.current_temp = Some(Round1(d.temperature))]
                [] k = "hold_mode" -> [t EXCEPT !.hold_mode = Some(d.hold_mode)]
                [] k = "fan_mode" -> [t EXCEPT !.fan_mode = Some(d.fan_mode)]
                [] k = "fan_state" -> [t EXCEPT !.fan_state = Some(d.fan_state)]
                [] k = "hvac_mode" -> [t EXCEPT !.hvac_mode = Some(d.hvac_mode)]
                [] k = "hvac_state" -> [t EXCEPT !.hvac_state = Some(d.hvac_state)]
                [] k = "cool_setpoint" -> [t EXCEPT !.cool_setpoint = Some(d.cool_setpoint)]
                [] k = "heat_setpoint" -> [t EXCEPT !.heat_setpoint = Some(d.heat_setpoint)]
                [] k = "away_details" ->
                     IF d.away_end_ts
                       THEN [t EXCEPT !.away_details = Some("end_ts"),
                                      !.preset_mode = Some("away")]
                       ELSE [t EXCEPT !.away_details = None,
                                      !.preset_mode = Some("none")]
    IN  Assign(t1, d, lo + 1, hi)

\* a refresh that leaves the cached fan mode as it finds it
refresh_keepfan(t, c, resp) ==
  LET h == http_request(c, "GET", <<"thermostat", t.thermostat_id, "state">>, None, TRUE, resp)
  IN  IF h.exc # "none" THEN TResult(h.c, t, h.exc, h.sent)
      ELSE
        LET m == IndexOf(StateKeys, resp.body[1].missing, 1)
            ta == Assign(t, resp.body[1].data, 1, IF m - 1 < 11 THEN m - 1 ELSE 11)
        IN  TResult(h.c, [ta EXCEPT !.fan_mode = t.fan_mode],
                    IF m > Len(StateKeys) THEN "none" ELSE "KeyError", h.sent)

\* a refresh that never reports the away preset
refresh_presetnone(t, c, resp) ==
  LET h == http_request(c, "GET", <<"thermostat", t.thermostat_id, "state">>, None, TRUE, resp)
  IN  IF h.exc # "none" THEN TResult(h.c, t, h.exc, h.sent)
      ELSE
        LET m == IndexOf(StateKeys, resp.body[1].missing, 1)
            ta == Assign(t, resp.body[1].data, 1, IF m - 1 < 11 THEN m - 1 ELSE 11)
        IN  TResult(h.c, IF m > 11 THEN [ta EXCEPT !.preset_mode = Some("none")] ELSE ta,
                    IF m > Len(StateKeys) THEN "none" ELSE "KeyError", h.sent)

\* last_update is set between heat_setpoint and away_details
refresh(t, c, resp) ==
  LET h == http_request(c, "GET", <<"thermostat", t.thermostat_id, "state">>, None, TRUE, resp)
  IN  IF h.exc # "none" THEN TResult(h.c, t, h.exc, h.sent)
      ELSE
        LET d == resp.body[1].data
            m == IndexOf(StateKeys, resp.body[1].missing, 1)
            ta == Assign(t, d, 1, IF m - 1 < 10 THEN m - 1 ELSE 10)
            tb == IF m > 10 THEN [ta EXCEPT !.last_update = Some("now")] ELSE ta
            tc == IF m > 11 THEN Assign(tb, d, 11, 11) ELSE tb
        IN  TResult(h.c, tc, IF m > Len(StateKeys) THEN "none" ELSE "KeyError", h.sent)

\* a constructor that goes on to refresh whatever get_metadata did
createThermostat_lenient(c, thermostat_id, metaResp, stateResp) ==
  LET g == get_metadata(InitThermostat(c, thermostat_id), c, metaResp)
      r == refresh(g.t, g.c, stateResp)
  IN  TResult(r.c, r.t, r.exc, g.sent \o r.sent)

createThermostat(c, thermostat_id, metaResp, stateResp) ==
  LET t0 == InitThermostat(c, thermostat_id)
      g == get_metadata(t0, c, metaResp)
  IN  IF g.exc # "none" THEN g
      ELSE
        LET r == refresh(g.t, g.c, stateResp)
        IN  TResult(r.c, r.t, r.exc, g.sent \o r.sent)

\* body of the user response (location_id_list) and of the location
\* response (thermostatIdList, or the key absent)
LocationLists == {<<>>, <<"locA", "locB">>}
UserBodies == {[present |-> TRUE, location_id_list |-> l] : l \in LocationLists}
                \cup {[present |-> FALSE, location_id_list |-> <<>>]}
LocationBodies == {[present |-> TRUE, thermostatIdList |-> l] : l \in {<<>>, <<"t1">>}}
                    \cup {[present |-> FALSE, thermostatIdList |-> <<>>]}
LocationIndexes == {-1, 0, 2}
\* the location bodies a listing is run against
ListingBodies ==
  {[present |-> TRUE, thermostatIdList |-> <<"t1", "t2">>],
   [present |-> FALSE, thermostatIdList |-> <<>>]}

\* l[i] of a Python list: i counts from 0, a negative i from the end
HasItem(l, i) == -Len(l) <= i /\ i < Len(l)
\* an indexing that always takes the first entry
ListItem_first(l, i) == l[1]
ListItem(l, i) == IF i >= 0 THEN l[i + 1] ELSE l[Len(l) + i + 1]

\* a listing that stores the location id once the location GET has succeeded
getThermostatIds_late(c, locationIndex, userResp, locResp) ==
  LET u == http_request(c, "GET", <<"user">>, None, TRUE, userResp)
  IN  IF u.exc # "none" THEN [c |-> u.c, exc |-> u.exc, sent |-> u.sent, ret |-> <<>>]
      ELSE IF ~userResp.body[1].present
        THEN [c |-> u.c, exc |-> "KeyError", sent |-> u.sent, ret |-> <<>>]
      ELSE IF ~HasItem(userResp.body[1].location_id_list, locationIndex)
        THEN [c |-> u.c, exc |-> "IndexError", sent |-> u.sent, ret |-> <<>>]
      ELSE
        LET id == ListItem(userResp.body[1].location_id_list, locationIndex)
            l == http_request(u.c, "GET", <<"location", id>>, None, TRUE, locResp)
        IN  IF l.exc # "none"
              THEN [c |-> l.c, exc |-> l.exc, sent |-> u.sent \o l.sent, ret |-> <<>>]
            ELSE IF ~locResp.body[1].present
              THEN [c |-> l.c, exc |-> "KeyError", sent |-> u.sent \o l.sent, ret |-> <<>>]
            ELSE [c |-> [l.c EXCEPT !.location_id = id], exc |-> "none",
                  sent |-> u.sent \o l.sent, ret |-> locResp.body[1].thermostatIdList]

getThermostatIds(c, locationIndex, userResp, locResp) ==
  LET u == http_request(c, "GET", <<"user">>, None, TRUE, userResp)
  IN  IF u.exc # "none" THEN [c |-> u.c, exc |-> u.exc, sent |-> u.sent, ret |-> <<>>]
      ELSE IF ~userResp.body[1].present
        THEN [c |-> u.c, exc |-> "KeyError", sent |-> u.sent, ret |-> <<>>]
      ELSE IF ~HasItem(userResp.body[1].location_id_list, locationIndex)
        THEN [c |-> u.c, exc |-> "IndexError", sent |-> u.sent, ret |-> <<>>]
      ELSE
        LET c1 == [u.c EXCEPT !.location_id =
                                ListItem(userResp.body[1].location_id_list, locationIndex)]
            l == http_request(c1, "GET", <<"location", c1.location_id>>, None, TRUE, locResp)
        IN  IF l.exc # "none"
              THEN [c |-> l.c, exc |-> l.exc, sent |-> u.sent \o l.sent, ret |-> <<>>]
            ELSE IF ~locResp.body[1].present
              THEN [c |-> l.c, exc |-> "KeyError", sent |-> u.sent \o l.sent, ret |-> <<>>]
            ELSE [c |-> l.c, exc |-> "none", sent |-> u.sent \o l.sent,
                  ret |-> locResp.body[1].thermostatIdList]

\* ------------------------------------------------------- thermostat writes
\* a temperature argument: whole degrees and tenths.  The limits of the
\* metadata above are whole numbers, so temp < limit and temp > limit are
\* decided as follows, and int(temp) is the whole part
Below(temp, limit) == temp.deg < limit
Above(temp, limit) == temp.deg > limit \/ (temp.deg = limit /\ temp.tenths > 0)
\* int() that rounds to the nearest whole number
IntOf_round(temp) == IF temp.tenths >= 5 THEN temp.deg + 1 ELSE temp.deg
IntOf(temp) == temp.deg

\* set_temp from its PATCH on: t is the thermostat with the setpoint already
\* assigned, which the assignment after the PATCH repeats
set_temp_patch(t, c, field, temp, resp) ==
  LET h == http_request(c, "PATCH", <<"thermostat", t.thermostat_id, "state">>,
                        Some([f \in {field} |-> IntOf(temp)]), TRUE, resp)
  IN  IF h.exc # "none" THEN TResult(h.c, t, h.exc, h.sent)
      ELSE IF field = "cool_setpoint"
        THEN TResult(h.c, [t EXCEPT !.cool_setpoint = Some(IntOf(temp))], "none", h.sent)
      ELSE TResult(h.c, [t EXCEPT !.heat_setpoint = Some(IntOf(temp))], "none", h.sent)

\* set_temp without the range test
set_temp_norange(t, c, temp, resp) ==
  IF t.hvac_mode = Some("cool")
    THEN set_temp_patch([t EXCEPT !.cool_setpoint = Some(IntOf(temp))], c,
                        "cool_setpoint", temp, resp)
  ELSE IF t.hvac_mode = Some("heat")
    THEN set_temp_patch([t EXCEPT !.heat_setpoint = Some(IntOf(temp))], c,
                        "heat_setpoint", temp, resp)
  ELSE IF t.hvac_mode = Some("off") THEN TResult(c, t, "none", <<>>)
  ELSE TResult(c, t, "TheSimpleError", <<>>)

\* set_temp without the branch for HVACMode.OFF
set_temp_nooff(t, c, temp, resp) ==
  IF Below(temp, t.min_temp) \/ Above(temp, t.max_temp) THEN TResult(c, t, "none", <<>>)
  ELSE IF t.hvac_mode = Some("cool")
    THEN set_temp_patch([t EXCEPT !.cool_setpoint = Some(IntOf(temp))], c,
                        "cool_setpoint", temp, resp)
  ELSE IF t.hvac_mode = Some("heat")
    THEN set_temp_patch([t EXCEPT !.heat_setpoint = Some(IntOf(temp))], c,
                        "heat_setpoint", temp, resp)
  ELSE TResult(c, t, "TheSimpleError", <<>>)

\* set_temp that returns in every mode other than cool and heat
set_temp_lenient(t, c, temp, resp) ==
  IF Below(temp, t.min_temp) \/ Above(temp, t.max_temp) THEN TResult(c, t, "none", <<>>)
  ELSE IF t.hvac_mode = Some("cool")
    THEN set_temp_patch([t EXCEPT !.cool_setpoint = Some(IntOf(temp))], c,
                        "cool_setpoint", temp, resp)
  ELSE IF t.hvac_mode = Some("heat")
    THEN set_temp_patch([t EXCEPT !.heat_setpoint = Some(IntOf(temp))], c,
                        "heat_setpoint", temp, resp)
  ELSE TResult(c, t, "none", <<>>)

set_temp(t, c, temp, resp) ==
  IF Below(temp, t.min_temp) \/ Above(temp, t.max_temp) THEN TResult(c, t, "none", <<>>)
  ELSE IF t.hvac_mode = Some("cool")
    THEN set_temp_patch([t EXCEPT !.cool_setpoint = Some(IntOf(temp))], c,
                        "cool_setpoint", temp, resp)
  ELSE IF t.hvac_mode = Some("heat")
    THEN set_temp_patch([t EXCEPT !.heat_setpoint = Some(IntOf(temp))], c,
                        "heat_setpoint", temp, resp)
  ELSE IF t.hvac_mode = Some("off") THEN TResult(c, t, "none", <<>>)
  ELSE TResult(c, t, "TheSimpleError", <<>>)

\* a set_mode that takes HVACMode.AUTO in both variants
AcceptedModes_auto == {"cool", "heat", "auto", "off"}

\* the modes set_mode accepts: HVACMode.AUTO in the simple variant only
AcceptedModes == IF variant = "simple" THEN {"cool", "heat", "auto", "off"}
                 ELSE {"cool", "heat", "off"}

\* the wire word the if-chain of set_mode picks for an accepted mode; the
\* members of HVACMode are the strings "cool", "heat", "auto", "off"
ModeWord(mode) ==
  CASE mode = "cool" -> "cool"
    [] mode = "heat" -> "heat"
    [] mode = "auto" -> "auto"
    [] mode = "off" -> "off"

set_mode(t, c, mode, resp) ==
  IF mode \notin AcceptedModes THEN TResult(c, t, "TheSimpleError", <<>>)
  ELSE
    LET h == http_request(c, "PATCH", <<"thermostat", t.thermostat_id, "state">>,
                          Some([hvac_mode |-> ModeWord(mode)]), TRUE, resp)
    IN  TResult(h.c, t, h.exc, h.sent)

\* the wire word for FAN_ON ("on") and FAN_AUTO ("auto")
FanWord(fan_mode) ==
  CASE fan_mode = "on" -> "on"
    [] fan_mode = "auto" -> "auto"

\* a set_fan_mode that stores the fan mode before the PATCH
set_fan_mode_eager(t, c, fan_mode, resp) ==
  IF fan_mode \notin {"on", "auto"} THEN TResult(c, t, "TheSimpleError", <<>>)
  ELSE
    LET h == http_request(c, "PATCH", <<"thermostat", t.thermostat_id, "state">>,
                          Some([fan_mode |-> FanWord(fan_mode)]), TRUE, resp)
    IN  TResult(h.c, [t EXCEPT !.fan_mode = Some(fan_mode)], h.exc, h.sent)

set_fan_mode(t, c, fan_mode, resp) ==
  IF fan_mode \notin {"on", "auto"} THEN TResult(c, t, "TheSimpleError", <<>>)
  ELSE
    LET h == http_request(c, "PATCH", <<"thermostat", t.thermostat_id, "state">>,
                          Some([fan_mode |-> FanWord(fan_mode)]), TRUE, resp)
    IN  IF h.exc # "none" THEN TResult(h.c, t, h.exc, h.sent)
        ELSE TResult(h.c, [t EXCEPT !.fan_mode = Some(fan_mode)], "none", h.sent)

\* body of the away_settings response: the two setpoints and the first of
\* the two consumed keys that is absent ("none": complete)
AwayKeys == <<"cool_setpoint", "heat_setpoint">>
AwayBodies ==
  [cool_setpoint : {85}, heat_setpoint : {60}, missing : {"none", "heat_setpoint"}]

\* away settings read for the location the session holds now
get_away_settings_session(t, c, resp) ==
  LET h == http_request(c, "GET", <<"location", c.location_id, "away_settings">>,
                        None, TRUE, resp)
  IN  IF h.exc # "none" THEN TResult(h.c, t, h.exc, h.sent)
      ELSE
        LET b == resp.body[1]
            m == IndexOf(AwayKeys, b.missing, 1)
            t1 == IF m > 1 THEN [t EXCEPT !.away_cool_setpoint = b.cool_setpoint] ELSE t
            t2 == IF m > 2 THEN [t1 EXCEPT !.away_heat_setpoint = b.heat_setpoint] ELSE t1
        IN  TResult(h.c, t2, IF m > Len(AwayKeys) THEN "none" ELSE "KeyError", h.sent)

get_away_settings(t, c, resp) ==
  LET h == http_request(c, "GET", <<"location", t.location_id, "away_settings">>,
                        None, TRUE, resp)
  IN  IF h.exc # "none" THEN TResult(h.c, t, h.exc, h.sent)
      ELSE
        LET b == resp.body[1]
            m == IndexOf(AwayKeys, b.missing, 1)
            t1 == IF m > 1 THEN [t EXCEPT !.away_cool_setpoint = b.cool_setpoint] ELSE t
            t2 == IF m > 2 THEN [t1 EXCEPT !.away_heat_setpoint = b.heat_setpoint] ELSE t1
        IN  TResult(h.c, t2, IF m > Len(AwayKeys) THEN "none" ELSE "KeyError", h.sent)

END_TS == "2050-12-31T00:00:00+00:00"

\* a write that stores the preset before the server has accepted it
set_preset_write_eager(a, preset, resp) ==
  IF a.exc # "none" THEN a
  ELSE
    LET h == http_request(a.c, IF preset = "away" THEN "PUT" ELSE "DELETE",
                          <<"thermostat", a.t.thermostat_id, "away">>,
                          IF preset = "away"
                            THEN Some([cool_setpoint |-> a.t.away_cool_setpoint,
                                       heat_setpoint |-> a.t.away_heat_setpoint,
                                       end_ts |-> END_TS])
                            ELSE None,
                          TRUE, resp)
    IN  TResult(h.c, [a.t EXCEPT !.preset_mode = Some(preset)], h.exc, a.sent \o h.sent)

\* set_preset_mode from its write on: a is the result of get_away_settings
set_preset_write(a, preset, resp) ==
  IF a.exc # "none" THEN a
  ELSE
    LET url == <<"thermostat", a.t.thermostat_id, "away">>
        h == IF preset = "away"
               THEN http_request(a.c, "PUT", url,
                                 Some([cool_setpoint |-> a.t.away_cool_setpoint,
                                       heat_setpoint |-> a.t.away_heat_setpoint,
                                       end_ts |-> END_TS]),
                                 TRUE, resp)
               ELSE http_request(a.c, "DELETE", url, None, TRUE, resp)
    IN  IF h.exc # "none" THEN TResult(h.c, a.t, h.exc, a.sent \o h.sent)
        ELSE TResult(h.c, [a.t EXCEPT !.preset_mode = Some(preset)], "none",
                     a.sent \o h.sent)

\* set_preset_mode without the test for the off mode
set_preset_mode_nooff(t, c, preset, awayResp, resp) ==
  IF preset \notin {"away", "none"} THEN TResult(c, t, "TheSimpleError", <<>>)
  ELSE set_preset_write(get_away_settings(t, c, awayResp), preset, resp)

set_preset_mode(t, c, preset, awayResp, resp) ==
  IF preset \notin {"away", "none"} THEN TResult(c, t, "TheSimpleError", <<>>)
  ELSE IF t.hvac_mode = Some("off")
    THEN TResult(c, [t EXCEPT !.preset_mode = Some("none")], "none", <<>>)
  ELSE set_preset_write(get_away_settings(t, c, awayResp), preset, resp)

\* ---------------------------------------------------------------- responses
\* a 2xx response carries a JSON body Some(b); any other response carries
\* an error text, which no caller parses
OkStatuses == {s \in Statuses : HTTP_SUCCESS_START <= s /\ s <= HTTP_SUCCESS_END}
Answers(statuses, bodies) ==
  {[status |-> s, body |-> Some(b)] : s \in statuses \cap OkStatuses, b \in bodies}
    \cup {[status |-> s, body |-> None] : s \in statuses \ OkStatuses}
Responses(bodies) == Answers(Statuses, bodies)

\* ------------------------------------------------------------- observations
\* the part of the session a call is compared against afterwards
Snapshot(c) ==
  [token |-> c.token, refreshToken |-> c.refreshToken, http_sess |-> c.http_sess,
   location_id |-> c.location_id]

\* what a call did.  resps are the responses the server had ready, of
\* which the call consumed one per request it sent, in order; steps are the
\* outcomes of the calls it made in turn; grant is the body of the token
\* response when one was parsed (for getThermostatIds and
\* createThermostat, the bodies of their two responses); ret is the list it returned, if it returns one
Last(op, arg, c, res, resps, steps, grant) ==
  [op |-> op, arg |-> arg, pre |-> Snapshot(c), exc |-> res.exc,
   statuses |-> [i \in 1 .. Len(res.sent) |-> resps[i].status],
   steps |-> steps, grant |-> grant,
   ret |-> IF "ret" \in DOMAIN res THEN res.ret ELSE <<>>]

\* what a call on the thermostat did: the same, with the thermostat as it
\* was before the call (was), and in grant the body of the first response,
\* which the call parses
TLast(op, arg, c, t, res, resps, body) ==
  [op |-> op, arg |-> arg, pre |-> Snapshot(c), was |-> t, exc |-> res.exc,
   statuses |-> [i \in 1 .. Len(res.sent) |-> resps[i].status],
   steps |-> <<res.exc>>, grant |-> body, ret |-> <<>>]

\* the body a response is parsed for, if its status is a success
Parsed(resp) == IF resp.status \in OkStatuses THEN resp.body ELSE None

\* what a call of auth did: the same as Last, with the body of the nonce
\* response (www) and the challenge the session had stored before the
\* call (stored)
AuthLast(username, password, c, res, resps) ==
  [op |-> "auth", arg |-> <<username, password>>, pre |-> Snapshot(c), exc |-> res.exc,
   statuses |-> [i \in 1 .. Len(res.sent) |-> resps[i].status],
   steps |-> res.steps,
   grant |-> IF Len(res.sent) = 3 THEN Parsed(resps[3]) ELSE None,
   ret |-> <<>>,
   www |-> IF Len(res.sent) >= 2 THEN Parsed(resps[2]) ELSE None,
   stored |-> [realm |-> c.realm, nonce |-> c.nonce, opaque |-> c.opaque]]

\* the worker threads of the executor that run the library's calls: where
\* each one is inside http_request or getToken, the token it found when it
\* tested for one (checked), the token it put into the header (bearer), and
\* the exception its last call raised
Threads == 1 .. NumThreads
InitThreads ==
  [i \in Threads |-> [pc |-> "idle", checked |-> <<>>, bearer |-> <<>>, exc |-> "none"]]

InitUpd ==
  [pc |-> "idle", retries |-> 0, success |-> FALSE, calls |-> <<>>, err |-> "none",
   pre |-> Snapshot(InitClient)]

Init ==
  /\ variant \in Variants
  /\ client = InitClient
  /\ th = None
  /\ upd = InitUpd
  /\ threads = InitThreads
  /\ sent = <<>>
  /\ last = [op |-> "init", arg |-> <<>>, pre |-> Snapshot(InitClient), exc |-> "none",
             statuses |-> <<>>, steps |-> <<>>, grant |-> None, ret |-> <<>>]

\* no coroutine of the adapter is between two awaits
Quiescent == upd.pc \in {"idle", "done"}

\* ----------------------------------------------------- client operations
HttpRequest(method, authenticated, resp) ==
  /\ Quiescent
  /\ \E res \in {http_request(client, method, <<"any">>, None, authenticated, resp)} :
         /\ client' = res.c
         /\ sent' = res.sent
         /\ last' = Last("http_request", <<method, authenticated>>, client, res, <<resp>>,
                      <<res.exc>>, None)
  /\ upd' = InitUpd
  /\ UNCHANGED <<variant, th, threads>>

GetToken(resp) ==
  /\ Quiescent
  /\ \E res \in {getToken(client, resp)} :
         /\ client' = res.c
         /\ sent' = res.sent
         /\ last' = Last("getToken", <<>>, client, res, <<resp>>, <<res.exc>>, Parsed(resp))
  /\ upd' = InitUpd
  /\ UNCHANGED <<variant, th, threads>>

Auth(username, password, pkResp, nonceResp, tokResp) ==
  /\ Quiescent
  /\ \E res \in {auth(client, username, password, pkResp, nonceResp, tokResp)} :
       /\ client' = res.c
       /\ sent' = res.sent
       /\ last' = AuthLast(username, password, client, res,
                           <<pkResp, nonceResp, tokResp>>)
  /\ upd' = InitUpd
  /\ UNCHANGED <<variant, th, threads>>

GetThermostatIds(locationIndex, userResp, locResp) ==
  /\ Quiescent
  /\ \E res \in {getThermostatIds(client, locationIndex, userResp, locResp)} :
         /\ client' = res.c
         /\ sent' = res.sent
         /\ last' = Last("getThermostatIds", <<locationIndex>>, client, res,
                      <<userResp, locResp>>, <<res.exc>>,
                      Some([user |-> IF Len(res.sent) >= 1 THEN Parsed(userResp) ELSE None,
                            location |-> IF Len(res.sent) >= 2 THEN Parsed(locResp)
                                         ELSE None]))
  /\ upd' = InitUpd
  /\ UNCHANGED <<variant, th, threads>>

\* ------------------------------------------------- thermostat operations
CreateThermostat(thermostat_id, metaResp, stateResp) ==
  /\ Quiescent
  /\ th = None
  /\ \E res \in {createThermostat(client, thermostat_id, metaResp, stateResp)} :
         /\ client' = res.c
         /\ th' = IF res.exc = "none" THEN Some(res.t) ELSE None
         /\ sent' = res.sent
         /\ last' = Last("createThermostat", <<thermostat_id>>, client, res,
                      <<metaResp, stateResp>>, <<res.exc>>,
                      Some([meta |-> IF Len(res.sent) >= 1 THEN Parsed(metaResp) ELSE None,
                            state |-> IF Len(res.sent) >= 2 THEN Parsed(stateResp)
                                      ELSE None]))
  /\ upd' = InitUpd
  /\ UNCHANGED <<variant, threads>>

Refresh(resp) ==
  /\ Quiescent
  /\ th # None
  /\ \E res \in {refresh(th[1], client, resp)} :
         /\ client' = res.c
         /\ th' = Some(res.t)
         /\ sent' = res.sent
         /\ last' = TLast("refresh", <<>>, client, th[1], res, <<resp>>, Parsed(resp))
  /\ upd' = InitUpd
  /\ UNCHANGED <<variant, threads>>

SetTemp(temp, resp) ==
  /\ Quiescent
  /\ th # None
  /\ \E res \in {set_temp(th[1], client, temp, resp)} :
         /\ client' = res.c
         /\ th' = Some(res.t)
         /\ sent' = res.sent
         /\ last' = TLast("set_temp", <<temp>>, client, th[1], res, <<resp>>, None)
  /\ upd' = InitUpd
  /\ UNCHANGED <<variant, threads>>

SetMode(mode, resp) ==
  /\ Quiescent
  /\ th # None
  /\ \E res \in {set_mode(th[1], client, mode, resp)} :
         /\ client' = res.c
         /\ th' = Some(res.t)
         /\ sent' = res.sent
         /\ last' = TLast("set_mode", <<mode>>, client, th[1], res, <<resp>>, None)
  /\ upd' = InitUpd
  /\ UNCHANGED <<variant, threads>>

SetFanMode(fan_mode, resp) ==
  /\ Quiescent
  /\ th # None
  /\ \E res \in {set_fan_mode(th[1], client, fan_mode, resp)} :
         /\ client' = res.c
         /\ th' = Some(res.t)
         /\ sent' = res.sent
         /\ last' = TLast("set_fan_mode", <<fan_mode>>, client, th[1], res, <<resp>>, None)
  /\ upd' = InitUpd
  /\ UNCHANGED <<variant, threads>>

SetPresetMode(preset, awayResp, resp) ==
  /\ Quiescent
  /\ th # None
  /\ \E res \in {set_preset_mode(th[1], client, preset, awayResp, resp)} :
         /\ client' = res.c
         /\ th' = Some(res.t)
         /\ sent' = res.sent
         /\ last' = TLast("set_preset_mode", <<preset>>, client, th[1], res,
                       <<awayResp, resp>>, Parsed(awayResp))
  /\ upd' = InitUpd
  /\ UNCHANGED <<variant, threads>>

\* ------------------------------------------------ adapter: async_update
\* one entry of the run's history: the call made, how it ended, the status
\* the server answered (0 when the call sent nothing) and whether the body
\* of that answer carried every field the call reads
Call(f, res, resp) ==
  [f |-> f, exc |-> res.exc,
   status |-> IF Len(res.sent) > 0 THEN resp.status ELSE 0,
   wellformed |-> /\ Len(res.sent) > 0
                  /\ resp.body # None
                  /\ resp.body[1].missing = "none"]

\* the responses worth offering to the call that follows res: one is
\* enough when res raised, since that call is then never made
After(exc, S) == IF exc = "none" THEN S ELSE {CHOOSE r \in S : TRUE}

\* retries -= 1, then the loop test, then "if not success: raise"
Decrement(u) ==
  IF u.retries - 1 > 0
    THEN [u EXCEPT !.retries = u.retries - 1, !.pc = "refresh"]
    ELSE [u EXCEPT !.retries = u.retries - 1, !.pc = "done", !.err = "RefreshFailed"]

\* break out of the loop without success
Break(u) == [u EXCEPT !.pc = "done", !.err = "RefreshFailed"]

\* an exception no handler of the coroutine catches
Escape(u, exc) == [u EXCEPT !.pc = "done", !.err = exc]

\* a wrapper that never re-acquires the token: every failed refresh just
\* counts as an attempt
AfterRefresh_noreauth(u, exc) ==
  IF exc = "none" THEN [u EXCEPT !.success = TRUE, !.pc = "done", !.err = "none"]
  ELSE Decrement(u)

\* where the coroutine goes after the refresh call ended with exc
AfterRefresh(u, exc) ==
  IF exc = "none" THEN [u EXCEPT !.success = TRUE, !.pc = "done", !.err = "none"]
  ELSE IF variant = "nvenergy" THEN [u EXCEPT !.pc = "getToken"]
  ELSE IF exc = "AuthError" THEN [u EXCEPT !.pc = "getToken"]
  ELSE IF exc = "APIError" THEN Decrement(u)
  ELSE Break(u)

\* a wrapper that takes a failed getToken as one more failed attempt
AfterGetToken_retry(u, exc) ==
  IF exc = "none" THEN Decrement(u)
  ELSE IF variant = "nvenergy" THEN Escape(u, exc)
  ELSE IF exc = "AuthError" THEN Decrement(u)
  ELSE Escape(u, exc)

\* where the coroutine goes after the getToken call of a handler ended
AfterGetToken(u, exc) ==
  IF exc = "none" THEN Decrement(u)
  ELSE IF variant = "nvenergy" THEN Escape(u, exc)
  ELSE IF exc = "AuthError" THEN Break(u)
  ELSE Escape(u, exc)

UpdateStart ==
  /\ Quiescent
  /\ th # None
  /\ upd' = [pc |-> "refresh", retries |-> 3, success |-> FALSE, calls |-> <<>>,
             err |-> "none", pre |-> Snapshot(client)]
  /\ sent' = <<>>
  /\ last' = [op |-> "async_update", arg |-> <<>>, pre |-> Snapshot(client),
              exc |-> "none", statuses |-> <<>>, steps |-> <<>>, grant |-> None,
              ret |-> <<>>]
  /\ UNCHANGED <<variant, client, th, threads>>

UpdateRefresh(resp) ==
  /\ upd.pc = "refresh"
  /\ \E res \in {refresh(th[1], client, resp)} :
     \E u \in {[upd EXCEPT !.calls = Append(@, Call("refresh", res, resp))]} :
         /\ client' = res.c
         /\ th' = Some(res.t)
         /\ sent' = sent \o res.sent
         /\ last' = Last("refresh", <<>>, client, res, <<resp>>, <<res.exc>>, None)
         /\ upd' = AfterRefresh(u, res.exc)
  /\ UNCHANGED <<variant, threads>>

UpdateGetToken(resp) ==
  /\ upd.pc = "getToken"
  /\ \E res \in {getToken(client, resp)} :
     \E u \in {[upd EXCEPT !.calls = Append(@, Call("getToken", res, resp))]} :
         /\ client' = res.c
         /\ sent' = sent \o res.sent
         /\ last' = Last("getToken", <<>>, client, res, <<resp>>, <<res.exc>>, Parsed(resp))
         /\ upd' = AfterGetToken(u, res.exc)
  /\ UNCHANGED <<variant, th, threads>>

\* ------------------------------------------------------------ specification
\* the calls of the client library, in any order, with any response
SessionOps ==
  \/ \E m \in Methods, a \in BOOLEAN :
       \E r \in IF http_request(client, m, <<"any">>, None, a, NoResp).sent = <<>>
                  THEN {NoResp} ELSE Responses({"any"}) :
         HttpRequest(m, a, r)
  \/ \E r \in Answers(CallStatuses, TokenBodies) : GetToken(r)
  \/ \E u \in Usernames, p \in Passwords, r1 \in Answers(CallStatuses, PubKeyBodies) :
       \E r2 \in After(getPublicKey(client, r1).exc, Answers(CallStatuses, NonceBodies)) :
         \E r3 \in After(authChallenge(client, r1, r2).exc,
                         Answers(CallStatuses, TokenBodies)) :
           Auth(u, p, r1, r2, r3)
  \/ \E i \in LocationIndexes, r1 \in Answers(CallStatuses, UserBodies) :
       \E r2 \in After(http_request(client, "GET", <<"user">>, None, TRUE, r1).exc,
                       Answers(CallStatuses, ListingBodies)) :
         GetThermostatIds(i, r1, r2)

SpecSession == Init /\ [][SessionOps]_vars

\* async_setup_platform: on a new client, auth, then getThermostatIds with
\* the default index, then createThermostat for the ids it returned; an
\* exception of any of the three ends the setup
SetupAuth ==
  /\ last.op = "init"
  /\ \E u \in Usernames, p \in Passwords, r1 \in Answers(CallStatuses, PubKeyBodies) :
       \E r2 \in After(getPublicKey(client, r1).exc, Answers(CallStatuses, NonceBodies)) :
         \E r3 \in After(authChallenge(client, r1, r2).exc,
                         Answers(CallStatuses, TokenBodies)) :
           Auth(u, p, r1, r2, r3)

SetupThermostatIds ==
  /\ last.op = "auth"
  /\ last.exc = "none"
  /\ \E r1 \in Answers(CallStatuses, UserBodies) :
       \E r2 \in After(http_request(client, "GET", <<"user">>, None, TRUE, r1).exc,
                       Answers(CallStatuses, LocationBodies)) :
         GetThermostatIds(0, r1, r2)

SetupThermostat ==
  /\ last.op = "getThermostatIds"
  /\ last.exc = "none"
  /\ \E i \in 1 .. Len(last.ret), r1 \in Answers(CallStatuses, MetaBodies) :
       \E r2 \in After(get_metadata(InitThermostat(client, last.ret[i]), client, r1).exc,
                       Answers(CallStatuses, StateBodies)) :
         CreateThermostat(last.ret[i], r1, r2)

\* the entity's update coroutine, one await at a time
UpdateOps ==
  \/ UpdateStart
  \/ \E r \in Answers(CallStatuses, UpdateStateBodies) : UpdateRefresh(r)
  \/ \E r \in Answers(CallStatuses, UpdateTokenBodies) : UpdateGetToken(r)

Next == SetupAuth \/ SetupThermostatIds \/ SetupThermostat \/ UpdateOps

Spec == Init /\ [][Next]_vars

\* the calls the entity makes on its thermostat once the platform is set
\* up, in any order, with any response, and getToken, which brings back a
\* token the server withdrew
Temps == {[deg |-> 44, tenths |-> 9], [deg |-> 72, tenths |-> 5],
          [deg |-> 95, tenths |-> 1]}
Modes == {"cool", "heat", "auto", "off", "dry"}
FanModes == {"on", "auto", "low"}
Presets == {"away", "none", "eco"}
\* state bodies with each of the four modes the server reports
ModeData ==
  StateData \cup
  {[connected |-> TRUE, setpoint_reason |-> "schedule", temperature |-> 7234,
    hold_mode |-> "off", fan_mode |-> "auto", fan_state |-> "off",
    hvac_mode |-> m, hvac_state |-> "off", cool_setpoint |-> 76,
    heat_setpoint |-> 68, away_end_ts |-> FALSE] : m \in {"heat", "auto"}}
ModeBodies == [data : ModeData, missing : {"none", "away_details"}]
NoBody == {"any"}

ThermostatOps ==
  /\ th # None
  /\ \/ \E r \in Answers(CallStatuses, ModeBodies) : Refresh(r)
     \/ \E temp \in Temps :
          \E r \in IF set_temp(th[1], client, temp, NoResp).sent = <<>>
                     THEN {NoResp} ELSE Answers(CallStatuses, NoBody) :
            SetTemp(temp, r)
     \/ \E mode \in Modes :
          \E r \in IF set_mode(th[1], client, mode, NoResp).sent = <<>>
                     THEN {NoResp} ELSE Answers(CallStatuses, NoBody) :
            SetMode(mode, r)
     \/ \E fan_mode \in FanModes :
          \E r \in IF set_fan_mode(th[1], client, fan_mode, NoResp).sent = <<>>
                     THEN {NoResp} ELSE Answers(CallStatuses, NoBody) :
            SetFanMode(fan_mode, r)
     \/ \E preset \in Presets :
          \E r1 \in IF set_preset_mode(th[1], client, preset, NoResp, NoResp).sent = <<>>
                      THEN {NoResp} ELSE Answers(CallStatuses, AwayBodies) :
            \E r2 \in After(get_away_settings(th[1], client, r1).exc,
                             Answers(CallStatuses, NoBody)) :
              SetPresetMode(preset, r1, r2)
     \/ \E r \in Answers(OkStatuses, [grant : {1}, missing : {"none"}]) : GetToken(r)

\* the login of the setup against a server that serves it: the calls on the
\* thermostat are run from one session
SetupAuthServed ==
  /\ last.op = "init"
  /\ \E u \in Usernames, p \in Passwords :
       Auth(u, p,
            [status |-> 200, body |-> Some("rsa")],
            [status |-> 200,
             body |-> Some([present |-> TRUE,
                            www |-> [form |-> TRUE, realm |-> "Consumer", nonce |-> "n1",
                                     opaque |-> "o1", trailing |-> FALSE]])],
            [status |-> 200, body |-> Some([grant |-> 1, missing |-> "none"])])

ThermostatNext == SetupAuthServed \/ SetupThermostatIds \/ SetupThermostat \/ ThermostatOps

SpecThermostat == Init /\ [][ThermostatNext]_vars

\* --------------------------------------------------- adapter: properties
\* state_to_action.get(state) of the simple variant
state_to_action(state) ==
  CASE state = Some("cool") -> Some("cooling")
    [] state = Some("heat") -> Some("heating")
    [] state = Some("off") -> Some("idle")
    [] OTHER -> None

\* an action that mirrors the state whatever the mode
hvac_action_mirror(t) == state_to_action(t.hvac_state)

\* the hvac_action property: HVACAction.OFF, COOLING, HEATING, IDLE by their
\* values, or None
hvac_action(t) ==
  IF variant = "simple"
    THEN IF t.hvac_mode = Some("off") /\ t.hvac_state = Some("off") THEN Some("off")
         ELSE state_to_action(t.hvac_state)
  ELSE IF t.hvac_mode = Some("off") /\ t.hvac_state = Some("off") THEN Some("off")
  ELSE IF t.hvac_state = Some("cool") THEN Some("cooling")
  ELSE IF t.hvac_state = Some("heat") THEN Some("heating")
  ELSE IF t.hvac_state = Some("off") THEN Some("idle")
  ELSE None

\* Home Assistant reads the property; nothing is sent and nothing changes
ReadHvacAction ==
  /\ Quiescent
  /\ th # None
  /\ last' = [op |-> "hvac_action", arg |-> <<>>, pre |-> Snapshot(client),
              was |-> th[1], exc |-> "none", statuses |-> <<>>, steps |-> <<>>,
              grant |-> None, ret |-> hvac_action(th[1])]
  /\ sent' = <<>>
  /\ upd' = InitUpd
  /\ UNCHANGED <<variant, client, th, threads>>

\* ------------------------------------------------ thermostat: properties
\* the read-only properties of TheSimpleThermostat that return state
PropertyNames ==
  {"connected", "cool_setpoint", "current_temp", "preset_mode", "fan_mode",
   "fan_state", "heat_setpoint", "hvacMode", "hvacState", "location_id",
   "last_update", "maxTemp", "minTemp", "name", "setpoint_reason",
   "supportedModes", "thermostat_id", "away_cool_setpoint", "away_heat_setpoint"}

\* a read that returned value x
Returned(x) == [exc |-> "none", ret |-> Some(x)]

\* reading property name of thermostat t.  The getter of fan_state returns
\* self.fan_state, which is the property itself and not the field
\* _fan_state: the read calls itself until the interpreter's recursion limit
\* raises RecursionError
property(t, name) ==
  CASE name = "fan_state" -> [exc |-> "RecursionError", ret |-> None]
    [] name = "connected" -> Returned(t.connected)
    [] name = "cool_setpoint" -> Returned(t.cool_setpoint)
    [] name = "current_temp" -> Returned(t.current_temp)
    [] name = "preset_mode" -> Returned(t.preset_mode)
    [] name = "fan_mode" -> Returned(t.fan_mode)
    [] name = "heat_setpoint" -> Returned(t.heat_setpoint)
    [] name = "hvacMode" -> Returned(t.hvac_mode)
    [] name = "hvacState" -> Returned(t.hvac_state)
    [] name = "location_id" -> Returned(t.location_id)
    [] name = "last_update" -> Returned(t.last_update)
    [] name = "maxTemp" -> Returned(t.max_temp)
    [] name = "minTemp" -> Returned(t.min_temp)
    [] name = "name" -> Returned(t.name)
    [] name = "setpoint_reason" -> Returned(t.setpoint_reason)
    [] name = "supportedModes" -> Returned(t.supported_modes)
    [] name = "thermostat_id" -> Returned(t.thermostat_id)
    [] name = "away_cool_setpoint" -> Returned(t.away_cool_setpoint)
    [] name = "away_heat_setpoint" -> Returned(t.away_heat_setpoint)

\* the entity or Home Assistant reads a property of the thermostat; nothing
\* is sent and nothing changes
ReadProperty(name) ==
  /\ Quiescent
  /\ th # None
  /\ \E res \in {property(th[1], name)} :
       last' = [op |-> "property", arg |-> <<name>>, pre |-> Snapshot(client),
                was |-> th[1], exc |-> res.exc, statuses |-> <<>>, steps |-> <<>>,
                grant |-> None, ret |-> res.ret]
  /\ sent' = <<>>
  /\ upd' = InitUpd
  /\ UNCHANGED <<variant, client, th, threads>>

\* state bodies with every pair of a mode and a state the server may report
ViewData ==
  {[connected |-> TRUE, setpoint_reason |-> "schedule", temperature |-> 7234,
    hold_mode |-> "off", fan_mode |-> "auto", fan_state |-> "off",
    hvac_mode |-> m, hvac_state |-> st, cool_setpoint |-> 76,
    heat_setpoint |-> 68, away_end_ts |-> FALSE] :
     m \in {"cool", "heat", "auto", "autocool", "off"},
     st \in {"cool", "heat", "off", "fan"}}
ViewBodies == [data : ViewData, missing : {"none"}]

\* the setup, with a thermostat in any of these states, and the properties
\* Home Assistant reads from the entity
SetupThermostatView ==
  /\ last.op = "getThermostatIds"
  /\ last.exc = "none"
  /\ \E i \in 1 .. Len(last.ret), r1 \in Answers(OkStatuses, MetaBodies) :
       \E r2 \in After(get_metadata(InitThermostat(client, last.ret[i]), client, r1).exc,
                       Answers(OkStatuses, ViewBodies)) :
         CreateThermostat(last.ret[i], r1, r2)

ViewNext ==
  \/ SetupAuthServed
  \/ SetupThermostatIds
  \/ SetupThermostatView
  \/ ReadHvacAction
  \/ \E name \in PropertyNames : ReadProperty(name)

SpecView == Init /\ [][ViewNext]_vars

\* a success status
IsOk(status) == HTTP_SUCCESS_START <= status /\ status <= HTTP_SUCCESS_END

\* ------------------------------------------------ calls on worker threads
\* The adapter hands every call of the library to the executor
\* (hass.async_add_executor_job), one entity per thermostat and all of them
\* on the one client; nothing in the adapter or in the library is locked.
\* A call is taken here one access to the client's token at a time: the
\* accesses of two threads interleave in any order.
Thread(i, pc, checked, bearer, exc) ==
  [threads EXCEPT ![i] = [pc |-> pc, checked |-> checked, bearer |-> bearer, exc |-> exc]]

\* the platform is set up: the login has given the client its token
LoggedIn == last.op = "auth" /\ last.exc = "none"

\* http_request(authenticated=True), the test for a token
http_request_check(i) ==
  /\ LoggedIn
  /\ threads[i].pc = "idle"
  /\ threads' = IF Len(client.token) = 0
                  THEN Thread(i, "idle", <<>>, <<>>, "AuthError")
                  ELSE Thread(i, "checked", client.token, <<>>, "none")
  /\ UNCHANGED <<variant, client, th, upd, sent, last>>

\* the header is built from the token as it is now and the request is
\* sent through the session, created if there is none
http_request_send(i) ==
  /\ threads[i].pc = "checked"
  /\ threads' = Thread(i, "sent", threads[i].checked, client.token, "none")
  /\ sent' = <<Request(client, "GET", <<"thermostat", i, "state">>,
                       Bearer(client.token), None, TRUE)>>
  /\ client' = httpSess(client)
  /\ UNCHANGED <<variant, th, upd, last>>

\* the response: a 401 clears the token and the session
http_request_receive(i, status) ==
  /\ threads[i].pc = "sent"
  /\ threads' = Thread(i, "idle", <<>>, <<>>, IF IsOk(status) THEN "none" ELSE "APIError")
  /\ client' = IF HTTP_FORBIDDEN_START <= status /\ status <= HTTP_FORBIDDEN_END
                 THEN clearToken(client) ELSE client
  /\ UNCHANGED <<variant, th, upd, sent, last>>

\* the exceptions of a call that the refresh wrapper answers with getToken
Reacquires(exc) == IF variant = "simple" THEN exc = "AuthError" ELSE exc # "none"

\* getToken, its clearToken
getToken_clear(i) ==
  /\ LoggedIn
  /\ threads[i].pc = "idle"
  /\ Reacquires(threads[i].exc)
  /\ threads' = Thread(i, "cleared", <<>>, <<>>, "none")
  /\ client' = clearToken(client)
  /\ UNCHANGED <<variant, th, upd, sent, last>>

\* its POST
getToken_post(i) ==
  /\ threads[i].pc = "cleared"
  /\ threads' = Thread(i, "posted", <<>>, <<>>, "none")
  /\ sent' = <<Request(client, "POST", <<"authenticate">>, DigestE(client),
                       [username |-> client.username,
                        password |-> client.authinfo.encryptedpass], FALSE)>>
  /\ client' = httpSess(client)
  /\ UNCHANGED <<variant, th, upd, last>>

\* the response to it: a success stores the grant
getToken_store(i, resp) ==
  /\ threads[i].pc = "posted"
  /\ threads' = Thread(i, "idle", <<>>, <<>>,
                       IF IsOk(resp.status) THEN "none"
                       ELSE IF HTTP_FORBIDDEN_START <= resp.status
                               /\ resp.status <= HTTP_FORBIDDEN_END THEN "AuthError"
                       ELSE "APIError")
  /\ client' = IF IsOk(resp.status) THEN StoreGrant(client, resp.body[1]) ELSE client
  /\ UNCHANGED <<variant, th, upd, sent, last>>

ThreadOps ==
  \E i \in Threads :
    \/ http_request_check(i)
    \/ http_request_send(i)
    \/ \E status \in CallStatuses : http_request_receive(i, status)
    \/ getToken_clear(i)
    \/ getToken_post(i)
    \/ \E r \in Answers(CallStatuses, [grant : Grants, missing : {"none"}]) :
         getToken_store(i, r)

ThreadNext == SetupAuthServed \/ ThreadOps

SpecThreads == Init /\ [][ThreadNext]_vars

\* ------------------------------------------- listings and one thermostat
\* the library used by a caller of its own: after the login, listings with
\* any index at any time, a thermostat constructed for a known id before or
\* after a listing, and calls on it
LocationOps ==
  \/ /\ last.op # "init"
     /\ \E i \in {-1, 0}, r1 \in Answers(CallStatuses, UserBodies) :
          \E r2 \in After(http_request(client, "GET", <<"user">>, None, TRUE, r1).exc,
                          Answers(CallStatuses, ListingBodies)) :
            GetThermostatIds(i, r1, r2)
  \/ /\ last.op # "init"
     /\ \E id \in ThermostatIds, r1 \in Answers(OkStatuses, MetaBodies) :
          \E r2 \in After(get_metadata(InitThermostat(client, id), client, r1).exc,
                          Answers(OkStatuses, StateBodies)) :
            CreateThermostat(id, r1, r2)
  \/ /\ th # None
     /\ \/ \E r \in Answers(CallStatuses, StateBodies) : Refresh(r)
        \/ \E preset \in Presets :
             \E r1 \in IF set_preset_mode(th[1], client, preset, NoResp, NoResp).sent = <<>>
                         THEN {NoResp} ELSE Answers(CallStatuses, AwayBodies) :
               \E r2 \in After(get_away_settings(th[1], client, r1).exc,
                                Answers(CallStatuses, NoBody)) :
                 SetPresetMode(preset, r1, r2)
        \/ \E r \in Answers(OkStatuses, [grant : {1}, missing : {"none"}]) : GetToken(r)

LocationNext == SetupAuthServed \/ LocationOps

SpecLocation == Init /\ [][LocationNext]_vars

\* ------------------------------------------------- set_temp at the limits
\* the temperatures of Temps and the two limits themselves
LimitTemps == Temps \cup {[deg |-> 45, tenths |-> 0], [deg |-> 95, tenths |-> 0]}

\* the setup, then set_temp with these temperatures, refresh, which brings
\* the thermostat into each mode, and getToken
SetTempOps ==
  /\ th # None
  /\ \/ \E r \in Answers(CallStatuses, ModeBodies) : Refresh(r)
     \/ \E temp \in LimitTemps :
          \E r \in IF set_temp(th[1], client, temp, NoResp).sent = <<>>
                     THEN {NoResp} ELSE Answers(CallStatuses, NoBody) :
            SetTemp(temp, r)
     \/ \E r \in Answers(OkStatuses, [grant : {1}, missing : {"none"}]) : GetToken(r)

SetTempNext == SetupAuthServed \/ SetupThermostatIds \/ SetupThermostat \/ SetTempOps

SpecSetTemp == Init /\ [][SetTempNext]_vars

\* ==================================================================== claims

\* C1: every request sent with authenticated=true carries a Bearer token
\* that is non-empty; none is sent while the stored access token is empty.
C1_BearerNonEmpty ==
  \A i \in 1 .. Len(sent) :
    sent[i].authenticated =>
      /\ sent[i].tokenAtSend # <<>>
      /\ sent[i].authorization # None
      /\ sent[i].authorization[1].scheme = "Bearer"
      /\ sent[i].authorization[1].token # <<>>

\* a request of a set* operation (an authenticated PATCH) sent with the
\* token a getToken had stored
C1_Witness ==
  /\ last.op = "http_request"
  /\ last.arg = <<"PATCH", TRUE>>
  /\ Len(sent) = 1
  /\ last.pre.token # <<>>
  /\ sent[1].authorization = Bearer(last.pre.token)

\* C2: http_request with authenticated=true and no token held fails with
\* AuthError before any network call: nothing is sent, no session handle is
\* created, and token, refresh token and location id are unchanged.
C2_NoTokenNoCall ==
  (last.op = "http_request" /\ last.arg[2] /\ last.pre.token = <<>>) =>
    /\ last.exc = "AuthError"
    /\ sent = <<>>
    /\ Snapshot(client) = last.pre

C2_Witness ==
  /\ last.op = "http_request"
  /\ last.arg[2]
  /\ last.pre.token = <<>>
  /\ last.pre.http_sess = None
  /\ last.pre.location_id # "None"
  /\ last.exc = "AuthError"

\* C3: a 401 answer to http_request clears the access token and the refresh
\* token, drops the session handle, and fails with AuthError.
C3_UnauthorizedIsAuthError ==
  (last.op = "http_request" /\ last.statuses = <<401>>) =>
    /\ client.token = <<>>
    /\ client.refreshToken = <<>>
    /\ client.http_sess = None
    /\ last.exc = "AuthError"

\* C4 as stated: any answer outside 200..299 other than 401 fails with
\* APIError and leaves token, refresh token and session handle unchanged.
C4_OtherStatusLeavesSessionAsIs ==
  (last.op = "http_request" /\ Len(last.statuses) = 1
     /\ ~IsOk(last.statuses[1]) /\ last.statuses[1] # 401) =>
    /\ last.exc = "APIError"
    /\ client.token = last.pre.token
    /\ client.refreshToken = last.pre.refreshToken
    /\ client.http_sess = last.pre.http_sess

\* C4 amended: any answer outside 200..299 other than 401 fails with
\* APIError, leaves token and refresh token unchanged and does not drop the
\* session handle: the handle held before is kept, and when none was held
\* the one created to send the request stays.
C4_OtherStatusKeepsSession ==
  (last.op = "http_request" /\ Len(last.statuses) = 1
     /\ ~IsOk(last.statuses[1]) /\ last.statuses[1] # 401) =>
    /\ last.exc = "APIError"
    /\ client.token = last.pre.token
    /\ client.refreshToken = last.pre.refreshToken
    /\ client.http_sess # None
    /\ last.pre.http_sess # None => client.http_sess = last.pre.http_sess

C4_Witness ==
  /\ last.op = "http_request"
  /\ last.statuses = <<403>>
  /\ last.arg[2]
  /\ last.exc = "APIError"
  /\ client.token # <<>>
  /\ client.refreshToken # <<>>

\* C5: getToken clears token, refresh token and session handle before it
\* sends the token request, so afterwards the stored token is empty or the
\* one that very response carried; an earlier token never survives.
C5_GetTokenClearsFirst ==
  last.op = "getToken" =>
    /\ sent # <<>>
    /\ sent[Len(sent)].method = "POST"
    /\ sent[Len(sent)].tokenAtSend = <<>>
    /\ sent[Len(sent)].refreshAtSend = <<>>
    /\ sent[Len(sent)].freshSession
    /\ \/ client.token = <<>>
       \/ /\ last.grant # None
          /\ client.token = <<last.grant[1].grant>>

\* a getToken that failed after an earlier one had stored a token
C5_Witness ==
  /\ last.op = "getToken"
  /\ last.pre.token # <<>>
  /\ last.pre.http_sess # None
  /\ last.exc = "APIError"
  /\ client.token = <<>>

AuthOrder ==
  <<[method |-> "GET", url |-> <<"public_key">>],
    [method |-> "GET", url |-> <<"authenticate", "nonce">>],
    [method |-> "POST", url |-> <<"authenticate">>]>>

\* order of the requests of authenticate, each unauthenticated, and none
\* issued after a failed step
AuthInOrder ==
  /\ Len(sent) <= 3
  /\ \A i \in 1 .. Len(sent) :
       /\ sent[i].method = AuthOrder[i].method
       /\ sent[i].url = AuthOrder[i].url
       /\ ~sent[i].authenticated
       /\ sent[i].authorization = None \/ sent[i].authorization[1].scheme # "Bearer"
  /\ last.steps[1] # "none" => Len(sent) <= 1 /\ Len(last.steps) = 1
  /\ (Len(last.steps) >= 2 /\ last.steps[2] # "none") =>
       Len(sent) <= 2 /\ Len(last.steps) = 2

\* every token response the call parsed carried the three fields
WellFormedGrant == last.grant = None \/ last.grant[1].missing = "none"

\* C7 as stated: authenticate sends public-key GET, nonce GET, token POST
\* in this order, each unauthenticated; after a failed public-key or nonce
\* step nothing more is sent; and a non-empty token is held at the end only
\* if all three steps succeeded in that call.  Stated for the calls whose
\* token response, if any, carried every field, so that what refutes it is
\* a call on a session that already held a token.
C7_AuthTokenOnlyOnSuccess ==
  (last.op = "auth" /\ WellFormedGrant) =>
    /\ AuthInOrder
    /\ client.token # <<>> => last.exc = "none"

\* C7 amended: same order and early stop; a non-empty token is held at the
\* end only if all three requests were sent and answered 2xx in that call,
\* or the call failed before its token request and the token is the one
\* that was held before the call.
C7_AuthTokenFromCallOrKept ==
  last.op = "auth" =>
    /\ AuthInOrder
    /\ client.token # <<>> =>
         \/ /\ Len(last.statuses) = 3
            /\ \A i \in 1 .. 3 : IsOk(last.statuses[i])
            /\ last.grant # None
            /\ client.token = <<last.grant[1].grant>>
         \/ /\ Len(sent) < 3
            /\ client.token = last.pre.token

\* a second authenticate that failed at its nonce step and kept the token
C7_Witness ==
  /\ last.op = "auth"
  /\ Len(last.steps) = 2
  /\ last.steps[2] # "none"
  /\ Len(sent) = 2
  /\ last.pre.token # <<>>
  /\ client.token = last.pre.token

\* ------------------------------------------------- the update coroutine
IsStateRead(call) == call.f = "refresh" /\ call.status # 0
IsTokenCall(call) == call.f = "getToken"
IsAttempt(call) == call.f = "refresh"

\* the state reads the server answered in this run, and the getToken calls
StateReads == SelectSeq(upd.calls, IsStateRead)
TokenCalls == SelectSeq(upd.calls, IsTokenCall)
Attempts == SelectSeq(upd.calls, IsAttempt)

\* the server answered the first state read of the run with 401 and every
\* later one with 200 and a complete body, and every token request with
\* 200 and a complete grant
RejectsOnceThenServes ==
  /\ StateReads # <<>>
  /\ StateReads[1].status = 401
  /\ \A i \in 2 .. Len(StateReads) :
       StateReads[i].status = 200 /\ StateReads[i].wellformed
  /\ \A i \in 1 .. Len(TokenCalls) :
       TokenCalls[i].status = 200 /\ TokenCalls[i].wellformed

\* C8 as stated: against a server that answers the state read with 401
\* once and with 200 afterwards, and accepts token requests, a run of
\* async_update succeeds, having made exactly one getToken call.
C8_OneReacquireThenSuccess ==
  (upd.pc = "done" /\ RejectsOnceThenServes) =>
    /\ upd.success
    /\ Len(TokenCalls) = 1

\* C8 amended: the same, for a run that starts while the session holds an
\* access token.
C8_OneReacquireWhenTokenHeld ==
  (upd.pc = "done" /\ RejectsOnceThenServes /\ upd.pre.token # <<>>) =>
    /\ upd.success
    /\ Len(TokenCalls) = 1

\* a run that started with a token, had its state read answered 401, then
\* 200, and succeeded after one getToken
C8_Witness ==
  /\ upd.pc = "done"
  /\ upd.pre.token # <<>>
  /\ Len(StateReads) = 2
  /\ StateReads[1].status = 401
  /\ StateReads[2].status = 200
  /\ Len(TokenCalls) = 1
  /\ upd.success

\* C9: a run of async_update calls refresh at most 3 times and getToken at
\* most 3 times, and when 3 refresh attempts were made and all failed, the
\* error that reaches the caller is the terminal "Refresh failed after
\* three attempts" error.
C9_BoundedThenTerminalError ==
  /\ Len(Attempts) <= 3
  /\ Len(TokenCalls) <= 3
  /\ (upd.pc = "done" /\ Len(Attempts) = 3
        /\ \A i \in 1 .. 3 : Attempts[i].exc # "none") =>
       upd.err = "RefreshFailed"

\* C10: in a run of async_update, a refresh attempt that fails with
\* AuthError is followed by exactly one getToken call before the next
\* attempt, that call sends only the token request, built from the stored
\* nonce, response, opaque and encrypted password, and a refresh attempt
\* that fails with APIError is followed directly by the next attempt.
C10_ReacquireOnAuthErrorOnly ==
  upd.pc # "idle" =>
    /\ \A i \in 1 .. Len(upd.calls) - 1 :
         /\ (upd.calls[i].f = "refresh" /\ upd.calls[i].exc = "AuthError") =>
              /\ upd.calls[i + 1].f = "getToken"
              /\ i + 2 <= Len(upd.calls) => upd.calls[i + 2].f = "refresh"
         /\ (upd.calls[i].f = "refresh" /\ upd.calls[i].exc = "APIError") =>
              upd.calls[i + 1].f = "refresh"
    /\ \A j \in 1 .. Len(sent) :
         /\ sent[j].url \notin {<<"public_key">>, <<"authenticate", "nonce">>}
         /\ sent[j].method = "POST" =>
              /\ sent[j].authorization = DigestE(client)
              /\ sent[j].body.password = client.authinfo.encryptedpass

\* a refresh attempt that ended with an error that is neither AuthError nor
\* APIError
IsOtherFailure(call) ==
  call.f = "refresh" /\ call.exc \notin {"none", "AuthError", "APIError"}

\* C11: in a run of async_update, a refresh attempt that fails with an error
\* that is neither AuthError nor APIError ends the run at once: no call
\* follows it, no getToken call is made for it, and when it was the first
\* attempt of the run it is the only call the run made.
C11_OtherErrorAborts ==
  \A i \in 1 .. Len(upd.calls) :
    IsOtherFailure(upd.calls[i]) =>
      /\ upd.pc = "done"
      /\ i = Len(upd.calls)
      /\ i = 1 => (Len(Attempts) = 1 /\ TokenCalls = <<>>)

\* the cached live state of a thermostat
LiveFields ==
  {"connected", "setpoint_reason", "current_temp", "hold_mode", "fan_mode", "fan_state",
   "hvac_mode", "hvac_state", "cool_setpoint", "heat_setpoint", "preset_mode"}
LiveState(t) == [f \in LiveFields |-> t[f]]

\* C12: refresh is atomic: when the state response lacks a field refresh
\* consumes, refresh fails and every cached live-state field keeps the value
\* it had before the call.
C12_RefreshAtomic ==
  (last.op = "refresh" /\ last.exc = "KeyError") =>
    LiveState(th[1]) = LiveState(last.was)

\* the cached live state a complete state body d stands for
Derived(d) ==
  [connected |-> Some(d.connected), setpoint_reason |-> Some(d.setpoint_reason),
   current_temp |-> Some(Round1(d.temperature)), hold_mode |-> Some(d.hold_mode),
   fan_mode |-> Some(d.fan_mode), fan_state |-> Some(d.fan_state),
   hvac_mode |-> Some(d.hvac_mode), hvac_state |-> Some(d.hvac_state),
   cool_setpoint |-> Some(d.cool_setpoint), heat_setpoint |-> Some(d.heat_setpoint),
   preset_mode |-> Some(IF d.away_end_ts THEN "away" ELSE "none")]

\* C13: after a successful refresh every cached live-state field equals the
\* value derived from the server response of that refresh, whatever values
\* earlier set_fan_mode, set_temp or set_preset_mode calls had written.
C13_RefreshOverwritesAll ==
  (last.op = "refresh" /\ last.exc = "none") =>
    LiveState(th[1]) = Derived(last.grant[1].data)

\* a successful refresh of a thermostat in cool mode whose cached fan mode,
\* cool setpoint and preset had been written by set_fan_mode("on"),
\* set_temp(72.5) and set_preset_mode("away"), and whose response says
\* otherwise
C13_Witness ==
  /\ last.op = "refresh"
  /\ last.exc = "none"
  /\ last.was.hvac_mode = Some("cool")
  /\ last.was.fan_mode = Some("on")
  /\ last.was.cool_setpoint = Some(72)
  /\ last.was.preset_mode = Some("away")
  /\ last.was.away_details = None
  /\ last.grant[1].data.fan_mode = "auto"
  /\ last.grant[1].data.cool_setpoint = 76
  /\ ~last.grant[1].data.away_end_ts
  /\ th[1].fan_mode = Some("auto")
  /\ th[1].cool_setpoint = Some(76)
  /\ th[1].preset_mode = Some("none")

\* the last call was set_temp, with a temperature outside (inside) the
\* limits the thermostat held
OutOfRange(temp, t) == Below(temp, t.min_temp) \/ Above(temp, t.max_temp)
SetTempOutOfRange == last.op = "set_temp" /\ OutOfRange(last.arg[1], last.was)
SetTempInRange == last.op = "set_temp" /\ ~OutOfRange(last.arg[1], last.was)
SetpointsKept ==
  /\ th[1].cool_setpoint = last.was.cool_setpoint
  /\ th[1].heat_setpoint = last.was.heat_setpoint

\* C14: set_temp with a temperature below min_temp or above max_temp does
\* nothing, in every HVAC mode: it returns normally, sends no request and
\* leaves the cached cool and heat setpoints as they were.
C14_OutOfRangeIsNoOp ==
  SetTempOutOfRange =>
    /\ last.exc = "none"
    /\ sent = <<>>
    /\ SetpointsKept

\* set_temp(95.1) on a thermostat in cool mode with limits 45..95, while
\* the session holds a token
C14_Witness ==
  /\ SetTempOutOfRange
  /\ last.arg[1].deg = last.was.max_temp
  /\ last.was.hvac_mode = Some("cool")
  /\ last.pre.token # <<>>
  /\ last.exc = "none"
  /\ sent = <<>>
  /\ SetpointsKept

\* C15: set_temp changes the cached setpoint on success only: when the mode
\* is cool or heat and the PATCH fails, with AuthError for want of a token
\* or with APIError, both cached setpoints keep the values they had.
C15_FailedPatchKeepsSetpoints ==
  (/\ SetTempInRange
   /\ last.was.hvac_mode \in {Some("cool"), Some("heat")}
   /\ last.exc \in {"AuthError", "APIError"}) =>
    SetpointsKept

\* C16: set_temp with a temperature within the limits while the cached HVAC
\* mode is off returns normally, sends no request and changes no cached
\* field.
C16_OffIsNoOp ==
  (SetTempInRange /\ last.was.hvac_mode = Some("off")) =>
    /\ last.exc = "none"
    /\ sent = <<>>
    /\ th[1] = last.was

\* set_temp(72.5) on a thermostat in off mode, while the session holds a
\* token
C16_Witness ==
  /\ SetTempInRange
  /\ last.was.hvac_mode = Some("off")
  /\ last.pre.token # <<>>
  /\ last.exc = "none"
  /\ sent = <<>>
  /\ th[1] = last.was

\* C17: set_temp with a temperature within the limits while the cached HVAC
\* mode is none of cool, heat and off fails with the validation error
\* (TheSimpleError), sends no request and leaves both cached setpoints as
\* they were.
C17_OtherModeIsRejected ==
  (/\ SetTempInRange
   /\ last.was.hvac_mode \notin {Some("cool"), Some("heat"), Some("off")}) =>
    /\ last.exc = "TheSimpleError"
    /\ sent = <<>>
    /\ SetpointsKept

\* set_temp(72.5) on a thermostat in auto mode, while the session holds a
\* token
C17_Witness ==
  /\ SetTempInRange
  /\ last.was.hvac_mode = Some("auto")
  /\ last.pre.token # <<>>
  /\ last.exc = "TheSimpleError"
  /\ sent = <<>>
  /\ SetpointsKept

\* the last call was set_preset_mode with one of the two presets it accepts
SetValidPreset == last.op = "set_preset_mode" /\ last.arg[1] \in {"away", "none"}

\* C18: set_preset_mode("away") or set_preset_mode("none") while the cached
\* HVAC mode is off sends no request, neither the away-settings GET nor a
\* PUT or DELETE, sets the cached preset to none and returns normally.
C18_PresetWhileOff ==
  (SetValidPreset /\ last.was.hvac_mode = Some("off")) =>
    /\ last.exc = "none"
    /\ sent = <<>>
    /\ th[1].preset_mode = Some("none")

\* set_preset_mode("away") on a thermostat in off mode whose cached preset
\* was away, while the session holds a token
C18_Witness ==
  /\ SetValidPreset
  /\ last.arg[1] = "away"
  /\ last.was.hvac_mode = Some("off")
  /\ last.was.preset_mode = Some("away")
  /\ last.pre.token # <<>>
  /\ last.exc = "none"
  /\ sent = <<>>
  /\ th[1].preset_mode = Some("none")

\* the away-settings GET of the thermostat's location, and the write the
\* preset asks for, given the body the GET was answered with
IsAwayGet(req) ==
  /\ req.method = "GET"
  /\ req.url = <<"location", last.was.location_id, "away_settings">>
IsAwayWrite(req, preset, b) ==
  /\ req.url = <<"thermostat", last.was.thermostat_id, "away">>
  /\ IF preset = "away"
       THEN /\ req.method = "PUT"
            /\ req.body = Some([cool_setpoint |-> b.cool_setpoint,
                                heat_setpoint |-> b.heat_setpoint,
                                end_ts |-> "2050-12-31T00:00:00+00:00"])
       ELSE req.method = "DELETE"

\* C19: set_preset_mode with a valid preset while the mode is not off sends
\* the away-settings GET first and only then the write: a PUT for away
\* that carries the cool and heat setpoints the GET returned and the end_ts
\* 2050-12-31T00:00:00+00:00, a DELETE for none.  The cached preset becomes
\* the requested one only if the write succeeds; if the GET or the write
\* fails, no request follows and the cached preset is as it was.
C19_PresetReadThenWrite ==
  (SetValidPreset /\ last.was.hvac_mode # Some("off")) =>
    /\ Len(sent) <= 2
    /\ sent = <<>> => (last.pre.token = <<>> /\ last.exc = "AuthError")
    /\ Len(sent) >= 1 => IsAwayGet(sent[1])
    /\ Len(sent) = 2 =>
         /\ IsOk(last.statuses[1])
         /\ last.grant[1].missing = "none"
         /\ IsAwayWrite(sent[2], last.arg[1], last.grant[1])
    /\ last.exc = "none" => (Len(sent) = 2 /\ IsOk(last.statuses[2]))
    /\ th[1].preset_mode =
         IF last.exc = "none" THEN Some(last.arg[1]) ELSE last.was.preset_mode

\* set_preset_mode("away") in cool mode with the cached preset none: the GET
\* answered 200 with 85 and 60, the PUT answered 200, and the preset is away
C19_Witness ==
  /\ SetValidPreset
  /\ last.arg[1] = "away"
  /\ last.was.hvac_mode = Some("cool")
  /\ last.was.preset_mode = Some("none")
  /\ Len(sent) = 2
  /\ IsAwayGet(sent[1])
  /\ sent[2].method = "PUT"
  /\ sent[2].body[1].cool_setpoint = 85
  /\ sent[2].body[1].heat_setpoint = 60
  /\ last.exc = "none"
  /\ th[1].preset_mode = Some("away")

\* the calls that act on the thermostat
ThermostatCalls == {"refresh", "set_temp", "set_mode", "set_fan_mode", "set_preset_mode"}

\* C20: set_mode never changes the cached HVAC mode: after set_mode it is
\* the value it was before the call, and it changes only when a later
\* refresh succeeds.
C20_ModeChangesOnRefreshOnly ==
  (last.op \in ThermostatCalls /\ th[1].hvac_mode # last.was.hvac_mode) =>
    (last.op = "refresh" /\ last.exc = "none")

\* the PATCH of the thermostat's state with the given body, carrying the
\* token the session held
IsStatePatch(req, body) ==
  /\ req.method = "PATCH"
  /\ req.url = <<"thermostat", last.was.thermostat_id, "state">>
  /\ req.authenticated
  /\ req.authorization = Bearer(last.pre.token)
  /\ req.body = Some(body)

\* the call changed neither the thermostat nor the session
NothingChanged == th[1] = last.was /\ Snapshot(client) = last.pre

\* C21: set_mode accepts exactly cool, heat, off in the nvenergy variant
\* and exactly cool, heat, auto, off in the simple variant.  For an
\* accepted value it makes one authenticated PATCH with the body
\* {hvac_mode: wire word}, which is the one request of the call (and is
\* refused with AuthError before it is sent when no token is held); any
\* other value fails with the validation error (TheSimpleError) before any
\* request and leaves all cached state as it was.
C21_SetModeAccepts ==
  last.op = "set_mode" =>
    IF last.arg[1] \in (IF variant = "nvenergy" THEN {"cool", "heat", "off"}
                          ELSE {"cool", "heat", "auto", "off"})
      THEN /\ last.exc # "TheSimpleError"
           /\ IF last.pre.token = <<>>
                THEN sent = <<>> /\ last.exc = "AuthError"
                ELSE /\ Len(sent) = 1
                     /\ IsStatePatch(sent[1], [hvac_mode |-> last.arg[1]])
      ELSE /\ last.exc = "TheSimpleError"
           /\ sent = <<>>
           /\ NothingChanged

\* set_mode(auto) in the simple variant sent its PATCH and returned
C21_Witness ==
  /\ last.op = "set_mode"
  /\ variant = "simple"
  /\ last.arg[1] = "auto"
  /\ last.exc = "none"
  /\ Len(sent) = 1
  /\ IsStatePatch(sent[1], [hvac_mode |-> "auto"])

\* C22: set_fan_mode with a value other than FAN_ON and FAN_AUTO fails with
\* the validation error (TheSimpleError) and sends nothing.  With one of
\* the two it makes one authenticated PATCH with the body {fan_mode}, which
\* is the one request of the call (refused with AuthError before it is
\* sent when no token is held); the cached fan mode becomes the requested
\* value if the PATCH succeeds and stays as it was if the PATCH fails.
C22_SetFanMode ==
  last.op = "set_fan_mode" =>
    IF last.arg[1] \in {"on", "auto"}
      THEN /\ last.exc # "TheSimpleError"
           /\ IF last.pre.token = <<>>
                THEN sent = <<>> /\ last.exc = "AuthError"
                ELSE /\ Len(sent) = 1
                     /\ IsStatePatch(sent[1], [fan_mode |-> last.arg[1]])
           /\ th[1].fan_mode =
                IF last.exc = "none" THEN Some(last.arg[1]) ELSE last.was.fan_mode
      ELSE /\ last.exc = "TheSimpleError"
           /\ sent = <<>>
           /\ th[1].fan_mode = last.was.fan_mode

\* set_fan_mode(on) on a thermostat whose cached fan mode was auto: the
\* PATCH was answered with a failure and the cached fan mode is still auto
C22_Witness ==
  /\ last.op = "set_fan_mode"
  /\ last.arg[1] = "on"
  /\ last.was.fan_mode = Some("auto")
  /\ Len(sent) = 1
  /\ IsStatePatch(sent[1], [fan_mode |-> "on"])
  /\ last.exc = "APIError"
  /\ th[1].fan_mode = Some("auto")

\* an authenticated GET of url, carrying the token held before the call
IsAuthGet(req, url) ==
  /\ req.method = "GET"
  /\ req.url = url
  /\ req.authenticated
  /\ req.authorization = Bearer(last.pre.token)

\* the user response of the last getThermostatIds carried a location list
\* (in which the index of the call selects an entry)
UserListed ==
  /\ Len(sent) >= 1
  /\ IsOk(last.statuses[1])
  /\ last.grant[1].user[1].present
UserEntrySelected ==
  /\ UserListed
  /\ HasItem(last.grant[1].user[1].location_id_list, last.arg[1])

\* the entry the index selects: the first is at 0, the last at -1
UserEntry ==
  LET l == last.grant[1].user[1].location_id_list
  IN  l[IF last.arg[1] >= 0 THEN last.arg[1] + 1 ELSE Len(l) + last.arg[1] + 1]

\* C23: getThermostatIds(locationIndex) sends an authenticated GET of the
\* user, takes the entry of location_id_list at locationIndex, stores it
\* as the session's location id, then sends an authenticated GET of
\* location/{that id} and returns its thermostatIdList as it stands; when
\* locationIndex selects no entry of the list, the call fails, no second
\* request is sent and the stored location id is as it was.
C23_ListThermostatIds ==
  last.op = "getThermostatIds" =>
    /\ Len(sent) <= 2
    /\ sent = <<>> <=> last.pre.token = <<>>
    /\ Len(sent) >= 1 => IsAuthGet(sent[1], <<"user">>)
    /\ UserEntrySelected =>
         /\ client.location_id = UserEntry
         /\ Len(sent) = 2
         /\ IsAuthGet(sent[2], <<"location", client.location_id>>)
         /\ (IsOk(last.statuses[2]) /\ last.grant[1].location[1].present) =>
              /\ last.exc = "none"
              /\ last.ret = last.grant[1].location[1].thermostatIdList
    /\ (UserListed /\ ~UserEntrySelected) =>
         /\ last.exc = "IndexError"
         /\ Len(sent) = 1
         /\ client.location_id = last.pre.location_id
    /\ last.exc = "none" => (UserEntrySelected /\ IsOk(last.statuses[2]))

\* getThermostatIds(0) on the location list locA, locB: locA is stored and
\* the thermostatIdList t1, t2 of location/locA is returned
C23_Witness ==
  /\ last.op = "getThermostatIds"
  /\ last.arg[1] = 0
  /\ UserEntrySelected
  /\ last.grant[1].user[1].location_id_list = <<"locA", "locB">>
  /\ client.location_id = "locA"
  /\ Len(sent) = 2
  /\ sent[2].url = <<"location", "locA">>
  /\ last.exc = "none"
  /\ last.ret = <<"t1", "t2">>

\* the metadata and the live state of a thermostat have been loaded
Loaded(t) ==
  /\ t.name # None
  /\ t.schedule_mode # None
  /\ t.supported_modes # {}
  /\ <<t.min_temp, t.max_temp>> # <<MIN_TEMP_DEFAULT, MAX_TEMP_DEFAULT>>
  /\ \A f \in LiveFields : t[f] # None

\* C24: constructing a thermostat sends the metadata GET and then the state
\* GET; the state GET is sent only after the metadata call succeeded; if
\* either call fails the constructor fails and the caller holds no
\* thermostat, so no thermostat whose metadata or live state is not loaded
\* is ever to be seen.
C24_ConstructionLoadsAll ==
  /\ th # None => Loaded(th[1])
  /\ last.op = "createThermostat" =>
       /\ Len(sent) <= 2
       /\ Len(sent) >= 1 => IsAuthGet(sent[1], <<"thermostat", last.arg[1]>>)
       /\ Len(sent) = 2 =>
            /\ IsOk(last.statuses[1])
            /\ last.grant[1].meta[1].missing = "none"
            /\ IsAuthGet(sent[2], <<"thermostat", last.arg[1], "state">>)
       /\ last.exc = "none" <=>
            /\ Len(sent) = 2
            /\ IsOk(last.statuses[2])
            /\ last.grant[1].state[1].missing = "none"
       /\ th # None <=> last.exc = "none"

\* a construction whose metadata GET was answered 200 and whose state GET
\* was refused: two requests, an error, and no thermostat
C24_Witness ==
  /\ last.op = "createThermostat"
  /\ Len(sent) = 2
  /\ IsOk(last.statuses[1])
  /\ ~IsOk(last.statuses[2])
  /\ last.exc = "APIError"
  /\ th = None

\* C25: after a successful refresh the cached preset is away if and only if
\* the away_details object of the response of that refresh contains the
\* key end_ts, and is none otherwise.
C25_PresetFromAwayDetails ==
  (last.op = "refresh" /\ last.exc = "none") =>
    /\ th[1].preset_mode \in {Some("away"), Some("none")}
    /\ th[1].preset_mode = Some("away") <=> last.grant[1].data.away_end_ts

\* a successful refresh whose away_details held end_ts, on a thermostat
\* whose cached preset was none: the preset is away
C25_Witness ==
  /\ last.op = "refresh"
  /\ last.exc = "none"
  /\ last.was.preset_mode = Some("none")
  /\ last.grant[1].data.away_end_ts
  /\ th[1].preset_mode = Some("away")
  /\ th[1].away_details = Some("end_ts")

\* C26: for every pair of a cached HVAC mode and a cached HVAC state the
\* derived action is off if and only if the mode is off and the state is
\* off; otherwise it is cooling for the state cool, heating for heat, idle
\* for off, and no action for any other state; in both variants alike.
C26_ActionFromModeAndState ==
  last.op = "hvac_action" =>
    /\ last.ret = Some("off") <=>
         (th[1].hvac_mode = Some("off") /\ th[1].hvac_state = Some("off"))
    /\ last.ret # Some("off") =>
         last.ret = CASE th[1].hvac_state = Some("cool") -> Some("cooling")
                      [] th[1].hvac_state = Some("heat") -> Some("heating")
                      [] th[1].hvac_state = Some("off") -> Some("idle")
                      [] OTHER -> None

\* the property read on a thermostat whose mode and state are both off, in
\* the nvenergy variant: the action is off
C26_Witness ==
  /\ last.op = "hvac_action"
  /\ variant = "nvenergy"
  /\ th[1].hvac_mode = Some("off")
  /\ th[1].hvac_state = Some("off")
  /\ last.ret = Some("off")

\* C27: http_request with a method other than GET, PATCH, PUT and DELETE
\* fails with APIError and sends nothing, in both variants.  Stated for the
\* calls the token test lets through (unauthenticated, or a token is held).
C27_UnsupportedMethodIsAPIError ==
  (/\ last.op = "http_request"
   /\ last.arg[1] \notin {"GET", "PATCH", "PUT", "DELETE"}
   /\ (~last.arg[2] \/ last.pre.token # <<>>)) =>
    /\ last.exc = "APIError"
    /\ sent = <<>>

\* the challenge string is, as a whole and with nothing after it, of the
\* form DigestE realm="X", nonce="Y", opaque="Z" with X, Y, Z words
ExactChallenge(www) ==
  /\ www.form
  /\ ~www.trailing
  /\ www.realm \in WordStrings
  /\ www.nonce \in WordStrings
  /\ www.opaque \in WordStrings

\* the last call was auth and its nonce GET was answered with a challenge
NonceAnswered == last.op = "auth" /\ last.www # None /\ last.www[1].present

\* C28: getNonce accepts the challenge string only when the whole string
\* has exactly that form; for every other string, one with more text after
\* the opaque value included, it fails with the parse error
\* (TheSimpleError), leaves the stored realm, nonce and opaque as they
\* were, and auth sends no token request.
C28_ChallengeMatchedWhole ==
  NonceAnswered =>
    IF ExactChallenge(last.www[1].www)
      THEN /\ last.steps[2] = "none"
           /\ client.realm = last.www[1].www.realm
           /\ client.nonce = last.www[1].www.nonce
           /\ client.opaque = last.www[1].www.opaque
      ELSE /\ last.steps[2] = "TheSimpleError"
           /\ Len(sent) = 2
           /\ [realm |-> client.realm, nonce |-> client.nonce,
               opaque |-> client.opaque] = last.stored

\* C29: in auth the challenge response is H(H(username:realm:H(password)):
\* nonce) with the realm parsed from the nonce challenge, while the
\* Authorization header of the token POST carries the realm "Consumer"
\* together with the parsed nonce and opaque and that response; for a
\* parsed realm other than Consumer the realm of the header is not the
\* realm bound into the response.
C29_HeaderRealmIsConsumer ==
  (last.op = "auth" /\ Len(sent) = 3) =>
    sent[3].authorization =
      Some([scheme |-> "DigestE",
            username |-> last.arg[1],
            realm |-> "Consumer",
            nonce |-> last.www[1].www.nonce,
            response |-> H(<<H(<<last.arg[1], last.www[1].www.realm, H(<<last.arg[2]>>)>>),
                             last.www[1].www.nonce>>),
            opaque |-> last.www[1].www.opaque])

\* an auth whose challenge carried the realm Other: the token POST names
\* the realm Consumer and a response computed with Other
C29_Witness ==
  /\ last.op = "auth"
  /\ Len(sent) = 3
  /\ last.www[1].www.realm = "Other"
  /\ sent[3].method = "POST"
  /\ sent[3].authorization[1].realm = "Consumer"
  /\ sent[3].authorization[1].response =
       H(<<H(<<"alice", "Other", H(<<"secret">>)>>), "n1">>)

\* C30: every request sent, unauthenticated, authenticated or the token
\* POST, carries the header X-Requested-With: XMLHttpRequest, the first
\* request after the HTTP session was dropped by a 401 response or by
\* getToken included.
C30_EveryRequestHasHeader ==
  \A i \in 1 .. Len(sent) :
    <<"X-Requested-With", "XMLHttpRequest">> \in sent[i].headers

\* a request sent by http_request through a session created for it, after
\* an earlier login had its session dropped by a 401 response
C30_Witness ==
  /\ last.op = "http_request"
  /\ client.username # ""
  /\ last.pre.http_sess = None
  /\ Len(sent) = 1
  /\ sent[1].freshSession
  /\ <<"X-Requested-With", "XMLHttpRequest">> \in sent[1].headers

\* C31: when calls of two thermostats run on worker threads with the one
\* session, every authenticated request a thread sends carries a bearer
\* token that is non-empty and is the token the request's own test for a
\* token found: no token clear and no getToken of the other thread comes
\* between the test and the sending.
C31_NoTokenRace ==
  \A i \in Threads :
    threads[i].pc = "sent" =>
      /\ threads[i].bearer # <<>>
      /\ threads[i].bearer = threads[i].checked

\* the field each read-only property is named after
FieldOf ==
  [connected |-> "connected",
   cool_setpoint |-> "cool_setpoint",
   current_temp |-> "current_temp",
   preset_mode |-> "preset_mode",
   fan_mode |-> "fan_mode",
   heat_setpoint |-> "heat_setpoint",
   hvacMode |-> "hvac_mode",
   hvacState |-> "hvac_state",
   location_id |-> "location_id",
   last_update |-> "last_update",
   maxTemp |-> "max_temp",
   minTemp |-> "min_temp",
   name |-> "name",
   setpoint_reason |-> "setpoint_reason",
   supportedModes |-> "supported_modes",
   thermostat_id |-> "thermostat_id",
   away_cool_setpoint |-> "away_cool_setpoint",
   away_heat_setpoint |-> "away_heat_setpoint",
   fan_state |-> "fan_state"]

\* C32: reading any read-only state property of a constructed thermostat
\* ends and returns the cached field of the same name; reading fan_state
\* returns the fan state the last successful refresh stored.
C32_PropertyReturnsField ==
  last.op = "property" =>
    /\ last.exc = "none"
    /\ last.ret = Some(last.was[FieldOf[last.arg[1]]])

\* C33: a run of async_update that does not end with a successful refresh
\* ends with the terminal "Refresh failed after three attempts" error and
\* with no other: no AuthError and no APIError of refresh or of the getToken
\* call of the handler reaches the caller.
C33_OnlyTerminalErrorEscapes ==
  (upd.pc = "done" /\ ~upd.success) =>
    /\ upd.err \notin {"AuthError", "APIError"}
    /\ upd.err = "RefreshFailed"

\* C34: in the simple variant, when the getToken call that follows a
\* refresh attempt's AuthError fails with AuthError itself, the run of
\* async_update ends there: no refresh attempt and no getToken call follows
\* it, and the run ends with the terminal error, without success, also when
\* fewer than 3 refresh attempts were made.
C34_FailedReacquireEndsRun ==
  variant = "simple" =>
    \A i \in 1 .. Len(upd.calls) :
      (upd.calls[i].f = "getToken" /\ upd.calls[i].exc = "AuthError") =>
        /\ i = Len(upd.calls)
        /\ upd.calls[i - 1].f = "refresh"
        /\ upd.calls[i - 1].exc = "AuthError"
        /\ upd.pc = "done"
        /\ ~upd.success
        /\ upd.err = "RefreshFailed"

\* a run of the simple variant that ended with the terminal error after one
\* refresh attempt, its getToken call having been answered 401
C34_Witness ==
  /\ variant = "simple"
  /\ upd.pc = "done"
  /\ upd.err = "RefreshFailed"
  /\ Len(upd.calls) = 2
  /\ Len(Attempts) = 1
  /\ upd.calls[1].exc = "AuthError"
  /\ upd.calls[2].f = "getToken"
  /\ upd.calls[2].exc = "AuthError"

\* the call observed in l, which sent the requests reqs, ran getToken: it
\* was getToken, or an authenticate that reached its token request
TokenCallRan(l, reqs) == l.op = "getToken" \/ (l.op = "auth" /\ Len(reqs) = 3)

\* a request made through http_request in that call was answered 401
Got401(l, reqs) ==
  /\ ~TokenCallRan(l, reqs)
  /\ \E i \in 1 .. Len(l.statuses) : l.statuses[i] = 401

\* the call was an authenticated operation of the session
AuthenticatedOp(l) ==
  \/ l.op = "http_request" /\ l.arg[2]
  \/ l.op = "getThermostatIds"

\* in every step, what each event does to the token, apart from what a
\* getToken call leaves: a 401 response empties it, a call that is neither
\* leaves it as it was, and an authenticated operation started without a
\* token fails with AuthError and sends nothing
TokenEvents ==
  /\ Got401(last', sent') => client'.token = <<>>
  /\ (~TokenCallRan(last', sent') /\ ~Got401(last', sent')) =>
       client'.token = client.token
  /\ (AuthenticatedOp(last') /\ client.token = <<>>) =>
       /\ last'.exc = "AuthError"
       /\ sent' = <<>>
       /\ client'.token = <<>>

IsAwaySettingsGet(req) ==
  /\ req.method = "GET"
  /\ Len(req.url) = 3
  /\ req.url[1] = "location"
  /\ req.url[3] = "away_settings"

\* C36: a thermostat's location id is the session's location id at the
\* moment of its construction (the null value when no listing had been
\* made), no call changes it afterwards, and every away-settings request of
\* the thermostat names that id, whatever location id a later listing has
\* stored in the session.
C36_LocationIdCaptured ==
  [][/\ (th = None /\ th' # None) => th'[1].location_id = client.location_id
     /\ th # None => (th' # None /\ th'[1].location_id = th[1].location_id)
     /\ \A j \in 1 .. Len(sent') :
          IsAwaySettingsGet(sent'[j]) =>
            (th # None /\ sent'[j].url[2] = th[1].location_id)]_vars

\* a thermostat constructed while the session held locA has asked for the
\* away settings of locA after a listing had stored locB in the session
C36_Witness ==
  /\ th # None
  /\ th[1].location_id = "locA"
  /\ client.location_id = "locB"
  /\ last.op = "set_preset_mode"
  /\ last.pre.location_id = "locB"
  /\ sent # <<>>
  /\ sent[1].url = <<"location", "locA", "away_settings">>

\* temp lies within the limits of thermostat t, the limits included, and
\* temp cut to its whole part, both computed on tenths of a degree
WithinLimits(temp, t) ==
  /\ t.min_temp * 10 <= temp.deg * 10 + temp.tenths
  /\ temp.deg * 10 + temp.tenths <= t.max_temp * 10
Truncated(temp) == (temp.deg * 10 + temp.tenths) \div 10

\* the cached setpoint set_temp writes in mode m, and the other one
SetpointOf(m) == IF m = Some("cool") THEN "cool_setpoint" ELSE "heat_setpoint"
OtherSetpointOf(m) == IF m = Some("cool") THEN "heat_setpoint" ELSE "cool_setpoint"

\* C37: set_temp takes the limits inclusively: a temp equal to min_temp or
\* max_temp is sent like any temp between them.  For such a temp in mode
\* cool (heat) the one request is the PATCH whose body has the single field
\* cool_setpoint (heat_setpoint) with temp cut to its whole part (it is
\* refused with AuthError before it is sent when no token is held); after
\* success the cached setpoint of that mode is that integer and the cached
\* setpoint of the other mode is as it was.
C37_InclusiveLimitsTruncatedValue ==
  (/\ last.op = "set_temp"
   /\ WithinLimits(last.arg[1], last.was)
   /\ last.was.hvac_mode \in {Some("cool"), Some("heat")}) =>
    /\ IF last.pre.token = <<>>
         THEN sent = <<>> /\ last.exc = "AuthError"
         ELSE /\ Len(sent) = 1
              /\ IsStatePatch(sent[1], [f \in {SetpointOf(last.was.hvac_mode)} |->
                                          Truncated(last.arg[1])])
    /\ last.exc = "none" =>
         /\ th[1][SetpointOf(last.was.hvac_mode)] = Some(Truncated(last.arg[1]))
         /\ th[1][OtherSetpointOf(last.was.hvac_mode)] =
              last.was[OtherSetpointOf(last.was.hvac_mode)]

\* set_temp(95.0) on a thermostat in heat mode whose max_temp is 95 was
\* sent and accepted
C37_Witness ==
  /\ last.op = "set_temp"
  /\ last.arg[1] = [deg |-> 95, tenths |-> 0]
  /\ last.was.max_temp = 95
  /\ last.was.hvac_mode = Some("heat")
  /\ last.exc = "none"
  /\ Len(sent) = 1
  /\ sent[1].body = Some([heat_setpoint |-> 95])
  /\ th[1].heat_setpoint = Some(95)
  /\ th[1].cool_setpoint = last.was.cool_setpoint

\* the location GET of the last getThermostatIds was sent and failed: it
\* was answered with a status outside 2xx, or with a body that lacks
\* thermostatIdList
LocationGetFailed ==
  /\ Len(sent) = 2
  /\ \/ ~IsOk(last.statuses[2])
     \/ ~last.grant[1].location[1].present

\* C38: getThermostatIds stores the location id as soon as the user GET has
\* succeeded and the index has selected an entry: when the location GET
\* that follows fails (401, another status outside 2xx, or a body without
\* thermostatIdList), the call fails and returns no list, and the session's
\* location id is the newly selected id, not the one held before.
C38_LocationIdStoredBeforeSecondGet ==
  (last.op = "getThermostatIds" /\ UserEntrySelected /\ LocationGetFailed) =>
    /\ last.exc = (IF IsOk(last.statuses[2]) THEN "KeyError" ELSE "APIError")
    /\ last.ret = <<>>
    /\ sent[2].url = <<"location", UserEntry>>
    /\ client.location_id = UserEntry

\* a session that held locA listed with index -1: locB was selected, the
\* GET of location/locB was answered 401, and the session holds locB
C38_Witness ==
  /\ last.op = "getThermostatIds"
  /\ last.arg[1] = -1
  /\ last.pre.location_id = "locA"
  /\ UserEntrySelected
  /\ last.statuses = <<200, 401>>
  /\ last.exc = "APIError"
  /\ client.location_id = "locB"
  /\ client.token = <<>>

====
